---- MODULE Spec2Model ----
(***************************************************************************)
(* Chain / agent execution core of golc.                                   *)
(*                                                                         *)
(* Strings are sequences of tokens.  A token is one white-space character  *)
(* (" ", "\n"), a run of ordinary characters ("x", "search", "Paris") or   *)
(* one of the three literal markers of the agent grammar ("Action:",       *)
(* "Action Input:", "Final Answer:").  No marker                           *)
(* overlaps itself or another marker, so a text splits into tokens in one  *)
(* way only, and substring search, splitting and pattern matching on the   *)
(* characters are the same operations on the tokens.                       *)
(***************************************************************************)
EXTENDS Integers, Sequences, FiniteSets, TLC

(***************************************************************************)
(* Bounds of the model.                                                    *)
(***************************************************************************)
\* longest model generation handed to the agent's output parser
MaxLen == 5
\* longest document list handed to the refine chain
MaxDocs == 3
\* most generations a model returns for one prompt (N-best sampling)
MaxNBest == 2
\* most iterations of one run of the agent loop
MaxSteps == 3
\* most nodes of a parsed template
MaxNodes == 3
\* most events of a response stream
MaxChunks == 3
\* most Generate calls made on one model
MaxCalls == 2
\* most chat messages in one sequence
MaxMessages == 3
\* most calls made on one memory
MaxOps == 3
\* most examples, and most predictions, of one evaluation
MaxExamples == 2

(***************************************************************************)
(* Strings.                                                                *)
(***************************************************************************)
SeqMin(S) == CHOOSE m \in S : \A n \in S : m <= n

SeqMax(S) == CHOOSE m \in S : \A n \in S : m >= n

IsSpace(c) == c \in {" ", "\n"}

\* strings.TrimSpace: the text without its leading and trailing white space
TrimSpace(s) ==
    LET keep == {i \in 1..Len(s) : ~IsSpace(s[i])}
    IN  IF keep = {} THEN <<>> ELSE SubSeq(s, SeqMin(keep), SeqMax(keep))

\* strings.Contains for a marker token
Contains(s, marker) == \E i \in 1..Len(s) : s[i] = marker

\* last element of strings.Split(s, marker), for s containing the marker
LastSplit(s, marker) ==
    LET at == {i \in 1..Len(s) : s[i] = marker}
    IN  IF at = {} THEN s ELSE SubSeq(s, SeqMax(at) + 1, Len(s))

(***************************************************************************)
(* Errors.  An error value carries the sentinel it wraps (errors.Is) and   *)
(* the rest of its message.                                                *)
(***************************************************************************)
NilErr == [is |-> "nil", detail |-> <<>>]

Err(sentinel, detail) == [is |-> sentinel, detail |-> detail]

ErrInvalidInputValues == "ErrInvalidInputValues"

ErrInputValuesWrongType == "ErrInputValuesWrongType"

ErrProvider == "ErrProvider"

ErrMemory == "ErrMemory"

ErrUnableToParseOutput == "ErrUnableToParseOutput"

ErrInvalidChainReturnType == "ErrInvalidChainReturnType"

(***************************************************************************)
(* ChainValues: a map from key to a value of any type.  The values the     *)
(* chains handle are strings and document lists.                           *)
(***************************************************************************)
StrV(s) == [t |-> "string", s |-> s, d |-> <<>>]

DocsV(ds) == [t |-> "docs", s |-> <<>>, d |-> ds]

\* the nil map a failed call returns
NilValues == <<>>

Document(content, meta) == [pageContent |-> content, metadata |-> meta]

\* util.OmitByKeys: a copy of the map without the given keys
OmitByKeys(m, keys) == [k \in (DOMAIN m) \ keys |-> m[k]]

\* util.CopyMap: a map is a value here, the copy is the map
CopyMap(m) == m

\* m with every entry of over written on top of it
Merge(m, over) ==
    [k \in (DOMAIN m) \cup (DOMAIN over) |-> IF k \in DOMAIN over THEN over[k] ELSE m[k]]

(***************************************************************************)
(* Prompt template: a list of parts, each a literal text or a reference to *)
(* a named variable.                                                       *)
(***************************************************************************)
Lit(s) == [var |-> FALSE, x |-> s]

Var(name) == [var |-> TRUE, x |-> name]

\* the variables a template references
InputVariables(tpl) == {tpl[i].x : i \in {j \in 1..Len(tpl) : tpl[j].var}}

RECURSIVE RenderParts(_, _, _)
RenderParts(tpl, values, n) ==
    IF n = 0 THEN <<>>
    ELSE RenderParts(tpl, values, n - 1) \o
         (IF ~tpl[n].var THEN <<tpl[n].x>>
          ELSE IF tpl[n].x \in DOMAIN values THEN values[tpl[n].x].s
          ELSE <<"<no value>">>)

\* Render writing a space after every value it substitutes
RenderPadded(tpl, values) ==
    [text |-> RenderParts([k \in 1..(2 * Len(tpl)) |->
                              IF k % 2 = 1 THEN tpl[(k + 1) \div 2]
                              ELSE IF tpl[k \div 2].var THEN Lit(" ") ELSE Lit("")],
                          values, 2 * Len(tpl)),
     err |-> NilErr]

\* Formatter.Render: executes the template on the values; the template is
\* parsed without the missingkey=error option, so a reference to a key the
\* map does not hold prints as "<no value>" and is not an error
Render(tpl, values) == [text |-> RenderParts(tpl, values, Len(tpl)), err |-> NilErr]

\* Template.Format / FormatPrompt: renders the template with its formatter
Format(tpl, values) == Render(tpl, values)

\* parse.Node.String of an action node that references a field: the action as
\* it is written in the template text, delimiters and dot included
NodeString(node) == <<"{{", ".", node.x, "}}">>

\* listNodeFields over the first n nodes of the root list: the text of every
\* action node, in template order, once per occurrence
RECURSIVE listNodeFields(_, _)
listNodeFields(nodes, n) ==
    IF n = 0 THEN <<>>
    ELSE listNodeFields(nodes, n - 1) \o (IF nodes[n].var THEN <<NodeString(nodes[n])>> ELSE <<>>)

\* ListTemplateFields
ListTemplateFields(t) == listNodeFields(t, Len(t))

(***************************************************************************)
(* Language model.  A model is an external collaborator: invoked with one  *)
(* prompt it fails, or returns nBest generations.  The chains' model       *)
(* answers deterministically (its first generation wraps the prompt it was *)
(* given, inside white space); the agent's model answers with a text of    *)
(* its own choosing (scripted).                                            *)
(***************************************************************************)
Respond(prompt) == <<" ", "[">> \o prompt \o <<"]", "\n">>

\* LLM.Generate for one prompt: the generations of that prompt, or an error
Generate(llm, prompt) ==
    IF llm.fail
    THEN [generations |-> <<>>, err |-> Err(ErrProvider, <<>>)]
    ELSE [generations |->
             <<[k \in 1..llm.nBest |->
                  IF k = 1
                  THEN (IF llm.scripted THEN llm.text ELSE Respond(prompt))
                  ELSE <<"alt">>]>>,
          err |-> NilErr]

\* model.GeneratePrompt with a single prompt value
GeneratePrompt(llm, promptValue) == Generate(llm, promptValue)

(***************************************************************************)
(* Everything a call does to its collaborators is recorded as events, in   *)
(* the order it happens.                                                   *)
(***************************************************************************)
Event(ev, chain, prompt, inputs, outputs, err) ==
    [ev |-> ev, chain |-> chain, prompt |-> prompt, inputs |-> inputs, outputs |-> outputs,
     err |-> err]

(***************************************************************************)
(* LLMChain.                                                               *)
(***************************************************************************)
NoMemory == [attached |-> FALSE, memories |-> <<>>, loadFails |-> FALSE]

LLMChain(name, llm, prompt, memory) ==
    [name |-> name, llm |-> llm, prompt |-> prompt, outputKey |-> "text", memory |-> memory]

\* LLMChain.InputKeys
LLMChainInputKeys(c) == InputVariables(c.prompt)

\* LLMChain.OutputKeys
LLMChainOutputKeys(c) == {c.outputKey}

\* getFinalOutput returning the top generation as the model sent it
getFinalOutputUntrimmed(generations) == generations[1][1]

\* LLMChain.getFinalOutput: the trimmed text of the top generation of the first prompt
getFinalOutput(generations) ==
    LET output == [g \in 1..Len(generations) |-> TrimSpace(generations[g][1])]
    IN  output[1]

\* LLMChain.Call: render the prompt, invoke the model, wrap the final output
LLMChainCall(c, inputs) ==
    LET promptValue == Format(c.prompt, inputs)
    IN  IF promptValue.err # NilErr
        THEN [out |-> NilValues, err |-> promptValue.err, events |-> <<>>]
        ELSE LET res == GeneratePrompt(c.llm, promptValue.text)
                 gen == Event("generate", c.name, promptValue.text, inputs, NilValues, res.err)
             IN  IF res.err # NilErr
                 THEN [out |-> NilValues, err |-> res.err, events |-> <<gen>>]
                 ELSE [out |-> (c.outputKey :> StrV(getFinalOutput(res.generations))),
                       err |-> NilErr, events |-> <<gen>>]

(***************************************************************************)
(* Memory and the call protocol every chain call goes through.             *)
(***************************************************************************)
\* Memory.LoadMemoryVariables: the stored variables, whatever the inputs
LoadMemoryVariables(memory, inputs) ==
    IF memory.loadFails
    THEN [vars |-> NilValues, err |-> Err(ErrMemory, <<>>)]
    ELSE [vars |-> memory.memories, err |-> NilErr]

\* step 1 of the protocol: every input key is present
ValidateInputs(c, inputs) ==
    LET missing == LLMChainInputKeys(c) \ DOMAIN inputs
    IN  IF missing = {} THEN NilErr
        ELSE Err(ErrInvalidInputValues, <<"no value for inputKey ", CHOOSE k \in missing : TRUE>>)

\* the merge with the caller's keys winning over the memory's
MergeMemoryCallerWins(inputs, vars) == Merge(vars, inputs)

\* step 2 of the protocol: memory-provided keys win over the caller's
MergeMemory(inputs, vars) == Merge(inputs, vars)

\* the protocol saving to the memory whether or not the chain succeeded
CallSavingAlways(c, inputs) ==
    LET enter == Event("call", c.name, <<>>, inputs, NilValues, NilErr)
        invalid == ValidateInputs(c, inputs)
        loaded == IF c.memory.attached /\ invalid = NilErr
                  THEN LoadMemoryVariables(c.memory, inputs)
                  ELSE [vars |-> NilValues, err |-> invalid]
        loadEv == IF c.memory.attached /\ invalid = NilErr
                  THEN <<Event("load", c.name, <<>>, inputs, loaded.vars, loaded.err)>>
                  ELSE <<>>
        working == MergeMemory(inputs, loaded.vars)
        r == IF loaded.err # NilErr
             THEN [out |-> NilValues, err |-> loaded.err, events |-> <<>>]
             ELSE LLMChainCall(c, working)
        saveEv == IF c.memory.attached
                  THEN <<Event("save", c.name, <<>>, working, r.out, NilErr)>>
                  ELSE <<>>
    IN  [out |-> r.out, err |-> r.err,
         events |-> <<enter>> \o loadEv \o r.events \o saveEv
                      \o <<Event("return", c.name, <<>>, inputs, r.out, r.err)>>]

\* chain.Call: validate, load memory, run the chain, save memory, return
Call(c, inputs) ==
    LET enter == Event("call", c.name, <<>>, inputs, NilValues, NilErr)
        invalid == ValidateInputs(c, inputs)
        Returning(events, out, err) ==
            [out |-> out, err |-> err,
             events |-> events \o <<Event("return", c.name, <<>>, inputs, out, err)>>]
    IN  IF invalid # NilErr
        THEN Returning(<<enter>>, NilValues, invalid)
        ELSE
        LET loaded == IF c.memory.attached
                      THEN LoadMemoryVariables(c.memory, inputs)
                      ELSE [vars |-> NilValues, err |-> NilErr]
            loadEv == IF c.memory.attached
                      THEN <<Event("load", c.name, <<>>, inputs, loaded.vars, loaded.err)>>
                      ELSE <<>>
        IN  IF loaded.err # NilErr
            THEN Returning(<<enter>> \o loadEv, NilValues, loaded.err)
            ELSE
            LET working == MergeMemory(inputs, loaded.vars)
                r == LLMChainCall(c, working)
                saveEv == IF c.memory.attached /\ r.err = NilErr
                          THEN <<Event("save", c.name, <<>>, working, r.out, NilErr)>>
                          ELSE <<>>
            IN  Returning(<<enter>> \o loadEv \o r.events \o saveEv, r.out, r.err)

\* LLMChain.Predict: call the chain and return the text under its output key
Predict(c, inputs) ==
    LET r == Call(c, inputs)
    IN  [text |-> IF r.err = NilErr THEN r.out[c.outputKey].s ELSE <<>>,
         err |-> r.err, events |-> r.events]

(***************************************************************************)
(* State.                                                                  *)
(*   cfg    what the caller and the environment supply to one chain call:  *)
(*          the input values, the memory attached to the initial chain,    *)
(*          which model invocation fails (0: none), generations per prompt *)
(*   pc     position of the call: start, initial, refine, done             *)
(*   op     the operation that was called: none, refine, llm               *)
(*   docs, rest, idx, res   locals of RefineDocumentsChain.call            *)
(*   ret    what the call returned: output values and error                *)
(*   trace  the events of the call so far                                  *)
(*   agent  the agent's side: inputs, step history and model answer of one *)
(*          Plan call, and what Plan returned                              *)
(*   loop   the agent loop around Plan: its inputs, the step history, the   *)
(*          model answers still to come, and how it ended                   *)
(*   fmt    one use of a prompt Formatter: the template, the values, and    *)
(*          what Render and Fields returned                                 *)
(*   bedrock  one Generate call of the Bedrock adapter: the request, the    *)
(*          response stream, the locals of the streaming loop, the          *)
(*          callbacks made and what the call returned                       *)
(***************************************************************************)
VARIABLES cfg, pc, op, docs, rest, idx, res, ret, trace, agent, loop, fmt, bedrock,
          openai, simple, stringify, qaeval

vars == <<cfg, pc, op, docs, rest, idx, res, ret, trace, agent, loop, fmt, bedrock,
          openai, simple, stringify, qaeval>>

chainVars == <<cfg, pc, op, docs, rest, idx, res, ret, trace>>

\* what the chains and one Plan call never touch
aside == <<loop, fmt, bedrock, openai, simple, stringify, qaeval>>

\* the chat model, the Simple memory, the transcript and the evaluation chains
others == <<openai, simple, stringify, qaeval>>

(***************************************************************************)
(* RefineDocumentsChain.                                                   *)
(***************************************************************************)
\* RefineDocumentsOptions as set by NewRefineDocumentsChain
RefineOpts ==
    [InputKey |-> "inputDocuments", DocumentVariableName |-> "context",
     InitialResponseName |-> "existingAnswer", OutputKey |-> "text",
     DocumentPrompt |-> <<Var("pageContent")>>]

\* the prompts the two LLM chains were built with
InitialPrompt == <<Lit("Q"), Var("question"), Lit("C"), Var("context")>>

RefinePrompt == <<Lit("Q"), Var("question"), Lit("A"), Var("existingAnswer"), Lit("C"), Var("context")>>

\* number of model invocations made so far
ModelCalls(tr) == Cardinality({i \in 1..Len(tr) : tr[i].ev = "generate"})

\* the chains' model at its next invocation
ChainLLM(tr) ==
    [scripted |-> FALSE, text |-> <<>>, nBest |-> cfg.nBest,
     fail |-> (ModelCalls(tr) + 1 = cfg.failAt)]

\* refine.llmChain and refine.refineLLMChain
InitialLLMChain(tr) == LLMChain("initial", ChainLLM(tr), InitialPrompt, cfg.memory)

RefineLLMChain(tr) == LLMChain("refine", ChainLLM(tr), RefinePrompt, NoMemory)

\* docInfo: the page content, then every metadata entry written over it
DocInfo(doc) ==
    Merge("pageContent" :> StrV(doc.pageContent),
          [k \in DOMAIN doc.metadata |-> StrV(doc.metadata[k])])

\* RefineDocumentsChain.constructInitialInputs
constructInitialInputs(doc, restValues) ==
    LET inputs == CopyMap(restValues)
        docText == Format(RefineOpts.DocumentPrompt, DocInfo(doc))
    IN  IF docText.err # NilErr
        THEN [inputs |-> NilValues, err |-> docText.err]
        ELSE [inputs |-> Merge(inputs, RefineOpts.DocumentVariableName :> StrV(docText.text)),
              err |-> NilErr]

\* constructRefineInputs handing on the document text as the existing answer
constructRefineInputsStale(doc, lastResponse, restValues) ==
    LET docText == Format(RefineOpts.DocumentPrompt, DocInfo(doc))
    IN  [inputs |->
            Merge(Merge(CopyMap(restValues), RefineOpts.DocumentVariableName :> StrV(docText.text)),
                  RefineOpts.InitialResponseName :> StrV(docText.text)),
         err |-> docText.err]

\* RefineDocumentsChain.constructRefineInputs
constructRefineInputs(doc, lastResponse, restValues) ==
    LET inputs == CopyMap(restValues)
        docText == Format(RefineOpts.DocumentPrompt, DocInfo(doc))
    IN  IF docText.err # NilErr
        THEN [inputs |-> NilValues, err |-> docText.err]
        ELSE [inputs |->
                Merge(Merge(inputs, RefineOpts.DocumentVariableName :> StrV(docText.text)),
                      RefineOpts.InitialResponseName :> StrV(lastResponse)),
              err |-> NilErr]

Return(out, err) == [out |-> out, err |-> err]

\* the checks with an empty list reported as a value of the wrong type
GetDocumentsEmptyAsWrongType(values, key) ==
    IF key \notin DOMAIN values
    THEN [docs |-> <<>>, err |-> Err(ErrInvalidInputValues, <<"no value for inputKey ", key>>)]
    ELSE IF values[key].t # "docs" \/ Len(values[key].d) = 0
    THEN [docs |-> <<>>, err |-> Err(ErrInputValuesWrongType, <<>>)]
    ELSE [docs |-> values[key].d, err |-> NilErr]

\* the checks without the test of the map lookup: a missing key fails the
\* type assertion
GetDocumentsMissingAsWrongType(values, key) ==
    IF key \notin DOMAIN values \/ values[key].t # "docs"
    THEN [docs |-> <<>>, err |-> Err(ErrInputValuesWrongType, <<>>)]
    ELSE IF Len(values[key].d) = 0
    THEN [docs |-> <<>>, err |-> Err(ErrInvalidInputValues, <<"documents slice has no elements">>)]
    ELSE [docs |-> values[key].d, err |-> NilErr]

\* RefineDocumentsChain.call, the checks of the input value: the documents
\* under the input key, or the error the call returns
GetDocuments(values, key) ==
    IF key \notin DOMAIN values
    THEN [docs |-> <<>>, err |-> Err(ErrInvalidInputValues, <<"no value for inputKey ", key>>)]
    ELSE IF values[key].t # "docs"
    THEN [docs |-> <<>>, err |-> Err(ErrInputValuesWrongType, <<>>)]
    ELSE IF Len(values[key].d) = 0
    THEN [docs |-> <<>>, err |-> Err(ErrInvalidInputValues, <<"documents slice has no elements">>)]
    ELSE [docs |-> values[key].d, err |-> NilErr]

NoReturn == Return(NilValues, NilErr)

\* RefineDocumentsChain.call, up to the first model call: the input checks
RefineEnter ==
    /\ pc = "start"
    /\ op' = "refine"
    /\ LET input == GetDocuments(cfg.values, RefineOpts.InputKey)
       IN  IF input.err # NilErr
           THEN /\ ret' = Return(NilValues, input.err)
                /\ pc' = "done"
                /\ UNCHANGED <<docs, rest>>
           ELSE /\ docs' = input.docs
                /\ rest' = OmitByKeys(cfg.values, {RefineOpts.InputKey})
                /\ pc' = "initial"
                /\ UNCHANGED ret
    /\ UNCHANGED <<cfg, idx, res, trace, agent>>
    /\ UNCHANGED aside

\* RefineDocumentsChain.call: the initial answer from the first document
RefineInitial ==
    /\ pc = "initial"
    /\ LET initialInputs == constructInitialInputs(docs[1], rest)
       IN  IF initialInputs.err # NilErr
           THEN /\ ret' = Return(NilValues, initialInputs.err)
                /\ pc' = "done"
                /\ UNCHANGED <<res, idx, trace>>
           ELSE LET r == Predict(InitialLLMChain(trace), initialInputs.inputs)
                IN  /\ trace' = trace \o r.events
                    /\ IF r.err # NilErr
                       THEN /\ ret' = Return(NilValues, r.err)
                            /\ pc' = "done"
                            /\ UNCHANGED <<res, idx>>
                       ELSE /\ res' = r.text
                            /\ idx' = 2
                            /\ pc' = "refine"
                            /\ UNCHANGED ret
    /\ UNCHANGED <<cfg, op, docs, rest, agent>>
    /\ UNCHANGED aside

\* the loop turn going on to the next document after a failed refine call
RefineStepIgnoringError ==
    /\ pc = "refine"
    /\ idx <= Len(docs)
    /\ LET refineInputs == constructRefineInputs(docs[idx], res, rest)
           r == Predict(RefineLLMChain(trace), refineInputs.inputs)
       IN  /\ trace' = trace \o r.events
           /\ res' = r.text
           /\ idx' = idx + 1
    /\ UNCHANGED <<cfg, pc, op, docs, rest, ret, agent>>
    /\ UNCHANGED aside

\* RefineDocumentsChain.call: one turn of the loop over the remaining documents
RefineStep ==
    /\ pc = "refine"
    /\ idx <= Len(docs)
    /\ LET refineInputs == constructRefineInputs(docs[idx], res, rest)
       IN  IF refineInputs.err # NilErr
           THEN /\ ret' = Return(NilValues, refineInputs.err)
                /\ pc' = "done"
                /\ UNCHANGED <<res, idx, trace>>
           ELSE LET r == Predict(RefineLLMChain(trace), refineInputs.inputs)
                IN  /\ trace' = trace \o r.events
                    /\ IF r.err # NilErr
                       THEN /\ ret' = Return(NilValues, r.err)
                            /\ pc' = "done"
                            /\ UNCHANGED <<res, idx>>
                       ELSE /\ res' = r.text
                            /\ idx' = idx + 1
                            /\ UNCHANGED <<pc, ret>>
    /\ UNCHANGED <<cfg, op, docs, rest, agent>>
    /\ UNCHANGED aside

\* RefineDocumentsChain.call: the loop is over, return the answer
RefineReturn ==
    /\ pc = "refine"
    /\ idx > Len(docs)
    /\ ret' = Return(RefineOpts.OutputKey :> StrV(res), NilErr)
    /\ pc' = "done"
    /\ UNCHANGED <<cfg, op, docs, rest, idx, res, trace, agent>>
    /\ UNCHANGED aside

\* a call of the initial LLM chain on its own, with the caller's values
LLMChainCallOp ==
    /\ pc = "start"
    /\ op' = "llm"
    /\ LET r == Call(InitialLLMChain(trace), cfg.values)
       IN  /\ ret' = Return(r.out, r.err)
           /\ trace' = trace \o r.events
    /\ pc' = "done"
    /\ UNCHANGED <<cfg, docs, rest, idx, res, agent>>
    /\ UNCHANGED aside

(***************************************************************************)
(* ZeroShotReactDescriptionAgent.                                          *)
(***************************************************************************)
finalAnswerAction == "Final Answer:"

actionMarker == "Action:"

actionInputMarker == "Action Input:"

\* ZeroShotReactDescriptionAgentOptions.OutputKey
AgentOutputKey == "output"

AgentAction(tool, toolInput, log) == [tool |-> tool, toolInput |-> toolInput, log |-> log]

AgentFinish(returnValues, log) == [returnValues |-> returnValues, log |-> log]

AgentStep(action, observation) == [action |-> action, observation |-> observation]

\* what Plan and parseOutput return: a list of actions, a finish (absent: empty), an error
PlanResult(actions, finish, err) == [actions |-> actions, finish |-> finish, err |-> err]

\* s[from..to-1] is white space only (\s*)
SpaceRun(s, from, to) == \A k \in from..(to - 1) : IsSpace(s[k])

\* s[from..to-1] holds no newline (.+ for from < to)
DotRun(s, from, to) == \A k \in from..(to - 1) : s[k] # "\n"

\* `\s*(.+)` right after the "Action Input:" at position c: where group 2 starts
InputStarts(s, c) ==
    {d \in (c + 1)..Len(s) : SpaceRun(s, c + 1, d) /\ s[d] # "\n"}

\* `Action:\s*(.+)\s*Action Input:` from the "Action:" at position i, with a
\* match of the rest after it: <<start of group 1, end of group 1, position of "Action Input:">>
HeadMatches(s, i) ==
    {t \in ((i + 1)..Len(s)) \X ((i + 2)..Len(s)) \X ((i + 2)..Len(s)) :
        /\ SpaceRun(s, i + 1, t[1])
        /\ t[1] < t[2]
        /\ DotRun(s, t[1], t[2])
        /\ t[2] <= t[3]
        /\ SpaceRun(s, t[2], t[3])
        /\ s[t[3]] = actionInputMarker
        /\ InputStarts(s, t[3]) # {}}

\* the match a greedy, backtracking matcher finds first: longest \s*, then longest group
Preferred(T) ==
    CHOOSE t \in T : \A u \in T :
        \/ t[1] > u[1]
        \/ t[1] = u[1] /\ t[2] > u[2]
        \/ t[1] = u[1] /\ t[2] = u[2] /\ t[3] >= u[3]

\* regexp `Action:\s*(.+)\s*Action Input:\s*(.+)`, FindStringSubmatch: the two groups
\* of the leftmost match
FindStringSubmatch(s) ==
    LET starts == {i \in 1..Len(s) : s[i] = actionMarker /\ HeadMatches(s, i) # {}}
    IN  IF starts = {} THEN <<>>
        ELSE LET i == SeqMin(starts)
                 h == Preferred(HeadMatches(s, i))
                 d == SeqMax(InputStarts(s, h[3]))
                 e == SeqMax({k \in (d + 1)..(Len(s) + 1) : DotRun(s, d, k)})
             IN  <<SubSeq(s, i, e - 1), SubSeq(s, h[1], h[2] - 1), SubSeq(s, d, e - 1)>>

\* parseOutput keeping the white space the pattern captured
parseOutputUntrimmed(output) ==
    IF Contains(output, finalAnswerAction)
    THEN PlanResult(<<>>,
                    <<AgentFinish(AgentOutputKey :> LastSplit(output, finalAnswerAction), output)>>,
                    NilErr)
    ELSE LET matches == FindStringSubmatch(output)
         IN  IF Len(matches) = 0
             THEN PlanResult(<<>>, <<>>, Err(ErrUnableToParseOutput, output))
             ELSE PlanResult(<<AgentAction(matches[2], matches[3], output)>>, <<>>, NilErr)

\* parseOutput taking a text it cannot parse for the final answer
parseOutputLenient(output) ==
    LET matches == FindStringSubmatch(output)
    IN  IF Contains(output, finalAnswerAction) \/ Len(matches) = 0
        THEN PlanResult(<<>>,
                        <<AgentFinish(AgentOutputKey :> LastSplit(output, finalAnswerAction), output)>>,
                        NilErr)
        ELSE PlanResult(<<AgentAction(TrimSpace(matches[2]), TrimSpace(matches[3]), output)>>,
                        <<>>, NilErr)

\* ZeroShotReactDescriptionAgent.parseOutput
parseOutput(output) ==
    IF Contains(output, finalAnswerAction)
    THEN PlanResult(<<>>,
                    <<AgentFinish(AgentOutputKey :> LastSplit(output, finalAnswerAction), output)>>,
                    NilErr)
    ELSE LET matches == FindStringSubmatch(output)
         IN  IF Len(matches) = 0
             THEN PlanResult(<<>>, <<>>, Err(ErrUnableToParseOutput, output))
             ELSE PlanResult(<<AgentAction(TrimSpace(matches[2]), TrimSpace(matches[3]), output)>>,
                             <<>>, NilErr)

RECURSIVE ScratchPad(_, _)
ScratchPad(steps, n) ==
    IF n = 0 THEN <<>>
    ELSE ScratchPad(steps, n - 1) \o steps[n].action.log \o
         <<"\n", "Observation:", " ">> \o steps[n].observation \o <<"\n", "Thought:">>

\* constructScratchPad walking the history from its newest step to its oldest
constructScratchPadNewestFirst(steps) ==
    ScratchPad([k \in 1..Len(steps) |-> steps[Len(steps) + 1 - k]], Len(steps))

\* ZeroShotReactDescriptionAgent.constructScratchPad
constructScratchPad(steps) == ScratchPad(steps, Len(steps))

\* createMRKLPrompt: prefix and instructions with the tool names bound at
\* construction, then the suffix with the two per-call variables
AgentPrompt ==
    <<Lit("prefix"), Lit("instructions"), Lit("Question:"), Var("input"),
      Lit("Thought:"), Var("agentScratchpad")>>

\* the agent's chain: an LLM chain over the agent's model, no memory
AgentChain ==
    LLMChain("agent",
             [scripted |-> TRUE, text |-> agent.resp.text, fail |-> agent.resp.fail, nBest |-> 1],
             AgentPrompt, NoMemory)

\* ZeroShotReactDescriptionAgent.Plan
PlanOf(intermediateSteps, inputs) ==
    LET fullInputes == Merge([k \in DOMAIN inputs |-> StrV(inputs[k])],
                             "agentScratchpad" :> StrV(constructScratchPad(intermediateSteps)))
        resp == Call(AgentChain, fullInputes)
        key == CHOOSE k \in LLMChainOutputKeys(AgentChain) : TRUE
    IN  [events |-> resp.events,
         result |-> IF resp.err # NilErr
                    THEN PlanResult(<<>>, <<>>, resp.err)
                    ELSE IF resp.out[key].t # "string"
                    THEN PlanResult(<<>>, <<>>, Err(ErrInvalidChainReturnType, <<>>))
                    ELSE parseOutput(resp.out[key].s)]

\* a caller invokes Plan with the step history and inputs it holds
Plan ==
    /\ agent.pc = "ready"
    /\ LET r == PlanOf(agent.steps, agent.inputs)
       IN  agent' = [agent EXCEPT !.pc = "done", !.via = "plan",
                                  !.events = r.events, !.result = r.result]
    /\ UNCHANGED chainVars
    /\ UNCHANGED aside

\* the output parser on its own, applied to a model text as it stands
ParseOutput ==
    /\ agent.pc = "ready"
    /\ ~agent.resp.fail
    /\ agent' = [agent EXCEPT !.pc = "done", !.via = "parse",
                              !.result = parseOutput(agent.resp.text)]
    /\ UNCHANGED chainVars
    /\ UNCHANGED aside

\* the agent's side before and at a Plan call
AgentOff ==
    [pc |-> "off", via |-> "none", inputs |-> <<>>, steps |-> <<>>,
     resp |-> [fail |-> FALSE, text |-> <<>>], events |-> <<>>,
     result |-> PlanResult(<<>>, <<>>, NilErr)]

AgentReady(inputs, steps, resp) ==
    [AgentOff EXCEPT !.pc = "ready", !.inputs = inputs, !.steps = steps, !.resp = resp]

(***************************************************************************)
(* The agent loop: Plan, then the tool the action names, then Plan again   *)
(* with the history extended by the step, until a finish or an error.      *)
(***************************************************************************)
ErrTool == "tool failed"

LoopOff ==
    [pc |-> "off", inputs |-> <<>>, steps |-> <<>>, script |-> <<>>,
     result |-> PlanResult(<<>>, <<>>, NilErr)]

\* what invoking a tool can come to: an observation, or a failure
ToolOutcomes ==
    {[fail |-> FALSE, observation |-> <<"o">>],
     [fail |-> FALSE, observation |-> <<>>],
     [fail |-> TRUE, observation |-> <<>>]}

\* the loop calls Plan with the history and the inputs it holds; the model
\* will answer with the next text of the script
LoopCallsPlan ==
    /\ loop.pc = "running"
    /\ loop.script # <<>>
    /\ agent' = AgentReady(loop.inputs, loop.steps, Head(loop.script))
    /\ loop' = [loop EXCEPT !.pc = "planning", !.script = Tail(loop.script)]
    /\ UNCHANGED <<chainVars, fmt, bedrock, others>>

\* the loop taking what Plan returned, and losing its history on an error
LoopTakesForgetting ==
    /\ loop.pc = "planning"
    /\ agent.pc = "done"
    /\ \/ /\ agent.result.err # NilErr
          /\ loop' = [loop EXCEPT !.pc = "failed", !.steps = <<>>, !.result = agent.result]
       \/ /\ agent.result.err = NilErr
          /\ agent.result.finish # <<>>
          /\ loop' = [loop EXCEPT !.pc = "finished", !.result = agent.result]
       \/ /\ agent.result.err = NilErr
          /\ agent.result.finish = <<>>
          /\ \E o \in ToolOutcomes :
                loop' = IF o.fail
                        THEN [loop EXCEPT !.pc = "failed", !.steps = <<>>,
                                          !.result = PlanResult(<<>>, <<>>, Err(ErrTool, <<>>))]
                        ELSE [loop EXCEPT !.pc = "running",
                                          !.steps = loop.steps \o
                                              [k \in 1..Len(agent.result.actions) |->
                                                  AgentStep(agent.result.actions[k], o.observation)]]
    /\ UNCHANGED <<chainVars, agent, fmt, bedrock, others>>

\* the loop takes what Plan returned: an error ends the run, a finish ends it
\* with the result, an action has its tool invoked and the observation
\* appended to the history as a new step
LoopTakes ==
    /\ loop.pc = "planning"
    /\ agent.pc = "done"
    /\ \/ /\ agent.result.err # NilErr
          /\ loop' = [loop EXCEPT !.pc = "failed", !.result = agent.result]
       \/ /\ agent.result.err = NilErr
          /\ agent.result.finish # <<>>
          /\ loop' = [loop EXCEPT !.pc = "finished", !.result = agent.result]
       \/ /\ agent.result.err = NilErr
          /\ agent.result.finish = <<>>
          /\ \E o \in ToolOutcomes :
                loop' = IF o.fail
                        THEN [loop EXCEPT !.pc = "failed",
                                          !.result = PlanResult(<<>>, <<>>, Err(ErrTool, <<>>))]
                        ELSE [loop EXCEPT !.pc = "running",
                                          !.steps = loop.steps \o
                                              [k \in 1..Len(agent.result.actions) |->
                                                  AgentStep(agent.result.actions[k], o.observation)]]
    /\ UNCHANGED <<chainVars, agent, fmt, bedrock, others>>

(***************************************************************************)
(* Formatter: a template text parsed once, then rendered on a map.         *)
(***************************************************************************)
FmtOff ==
    [pc |-> "off", tpl |-> <<>>, values |-> <<>>, fields |-> <<>>,
     out |-> [text |-> <<>>, err |-> NilErr]]

\* NewFormatter: parses the text and lists the fields of the parsed template
NewFormatter ==
    /\ fmt.pc = "new"
    /\ fmt' = [fmt EXCEPT !.pc = "made", !.fields = ListTemplateFields(fmt.tpl)]
    /\ UNCHANGED <<chainVars, agent, loop, bedrock, others>>

\* Formatter.Render on the values of a caller
FormatterRender ==
    /\ fmt.pc = "made"
    /\ fmt' = [fmt EXCEPT !.pc = "rendered", !.out = Render(fmt.tpl, fmt.values)]
    /\ UNCHANGED <<chainVars, agent, loop, bedrock, others>>

(***************************************************************************)
(* Bedrock.  A request or response body is the JSON document it encodes: a *)
(* map from the JSON names to values; a body that is not well-formed JSON  *)
(* decodes to nothing.  A model id is the list of its dot- and dash-       *)
(* separated parts.                                                        *)
(***************************************************************************)
ErrStopSequenceKey == "stop sequence key name for provider is not supported"

ErrUnsupportedProvider == "unsupported provider"

ErrUnmarshal == "json: cannot unmarshal"

ErrClient == "bedrockruntime: operation error"

ErrContextCanceled == "context canceled"

ErrCallback == "callback error"

\* a list value of a map
ListV(l) == [t |-> "list", s |-> <<>>, d |-> l]

\* the largest int32
MaxInt32 == 2147483647

\* int32 addition: a sum beyond the range of int32 wraps around
AddInt32(a, b) ==
    IF a > 0 /\ b > MaxInt32 - a THEN ((a - MaxInt32) + (b - MaxInt32)) - 2
    ELSE IF a < 0 /\ b < (0 - MaxInt32) - 1 - a THEN ((a + MaxInt32) + (b + MaxInt32)) + 2
    ELSE a + b

\* strings.Join(tokens, "")
RECURSIVE Join(_)
Join(tokens) == IF tokens = <<>> THEN <<>> ELSE Head(tokens) \o Join(Tail(tokens))

providerStopSequenceKeyMap ==
    ("anthropic" :> "stop_sequences") @@ ("amazon" :> "stopSequences") @@
    ("ai21" :> "stop_sequences") @@ ("cohere" :> "stop_sequences") @@ ("mistral" :> "stop")

\* Bedrock.getProvider
getProvider(modelID) ==
    LET provider == modelID[1]
    IN  IF provider = "cohere" /\ Contains(modelID, "command-r") THEN "cohere-r" ELSE provider

\* BedrockInputOutputAdapter.PrepareInput: the request body for the provider
PrepareInput(provider, prompt, modelParams) ==
    CASE provider \in {"ai21", "cohere", "meta"} ->
            [body |-> Merge(modelParams, "prompt" :> StrV(prompt)), err |-> NilErr]
      [] provider = "amazon" ->
            [body |-> ("inputText" :> StrV(prompt)) @@
                      ("textGenerationConfig" :> [t |-> "map", s |-> <<>>, d |-> modelParams]),
             err |-> NilErr]
      [] provider = "anthropic" ->
            [body |-> Merge(modelParams,
                            "messages" :> ListV(<<[role |-> "user", content |-> prompt]>>)),
             err |-> NilErr]
      [] provider = "cohere-r" ->
            [body |-> Merge(modelParams, "message" :> StrV(prompt)), err |-> NilErr]
      [] provider = "mistral" ->
            [body |-> Merge(modelParams,
                            "prompt" :> StrV(<<"<s>[INST]", " ">> \o prompt \o <<" ", "[/INST]">>)),
             err |-> NilErr]
      [] OTHER -> [body |-> <<>>, err |-> Err(ErrUnsupportedProvider, <<provider>>)]

\* a JSON body: well-formed or not, and the document it encodes
Payload(doc) == [wellFormed |-> TRUE, doc |-> doc]

Malformed == [wellFormed |-> FALSE, doc |-> <<>>]

\* json.Unmarshal leaves a field whose name the document lacks at its zero value
Field(doc, name, zero) == IF name \in DOMAIN doc THEN doc[name] ELSE zero

BedrockInvocationMetrics(inputTokenCount, outputTokenCount) ==
    [inputTokenCount |-> inputTokenCount, outputTokenCount |-> outputTokenCount]

Metrics(doc) == Field(doc, "amazon-bedrock-invocationMetrics", BedrockInvocationMetrics(0, 0))

streamOutput(token, inputTokens, outputTokens, err, panics) ==
    [token |-> token, inputTokens |-> inputTokens, outputTokens |-> outputTokens,
     err |-> err, panics |-> panics]

\* the text of the first entry of a list of completions; indexing an empty list panics
FirstText(list) ==
    IF list = <<>> THEN [text |-> <<>>, panics |-> TRUE]
    ELSE [text |-> list[1].text, panics |-> FALSE]

\* BedrockInputOutputAdapter.PrepareStreamOutput
PrepareStreamOutput(provider, response) ==
    IF provider \notin {"amazon", "anthropic", "cohere", "cohere-r", "meta", "mistral"}
    THEN streamOutput(<<>>, 0, 0, Err(ErrUnsupportedProvider, <<provider>>), FALSE)
    ELSE IF ~response.wellFormed
    THEN streamOutput(<<>>, 0, 0, Err(ErrUnmarshal, <<>>), FALSE)
    ELSE LET o == response.doc
             first == CASE provider = "amazon" ->
                               [text |-> Field(o, "outputText", <<>>), panics |-> FALSE]
                        [] provider = "anthropic" ->
                               [text |-> Field(o, "delta", [text |-> <<>>]).text, panics |-> FALSE]
                        [] provider = "cohere" -> FirstText(Field(o, "generations", <<>>))
                        [] provider = "cohere-r" ->
                               [text |-> Field(o, "text", <<>>), panics |-> FALSE]
                        [] provider = "meta" ->
                               [text |-> Field(o, "generation", <<>>), panics |-> FALSE]
                        [] provider = "mistral" -> FirstText(Field(o, "outputs", <<>>))
         IN  IF first.panics THEN streamOutput(<<>>, 0, 0, NilErr, TRUE)
             ELSE streamOutput(first.text, Metrics(o).inputTokenCount,
                               Metrics(o).outputTokenCount, NilErr, FALSE)

\* BedrockInputOutputAdapter.PrepareOutput
PrepareOutput(provider, response) ==
    IF provider \notin {"ai21", "amazon", "anthropic", "cohere", "cohere-r", "meta", "mistral"}
    THEN [text |-> <<>>, err |-> Err(ErrUnsupportedProvider, <<provider>>), panics |-> FALSE]
    ELSE IF ~response.wellFormed
    THEN [text |-> <<>>, err |-> Err(ErrUnmarshal, <<>>), panics |-> FALSE]
    ELSE LET o == response.doc
             completions == Field(o, "completions", <<>>)
             first == CASE provider = "ai21" ->
                               FirstText([k \in 1..Len(completions) |-> completions[k].data])
                        [] provider = "amazon" -> FirstText(Field(o, "results", <<>>))
                        [] provider = "anthropic" -> FirstText(Field(o, "content", <<>>))
                        [] provider = "cohere" -> FirstText(Field(o, "generations", <<>>))
                        [] provider = "cohere-r" ->
                               [text |-> Field(o, "text", <<>>), panics |-> FALSE]
                        [] provider = "meta" ->
                               [text |-> Field(o, "generation", <<>>), panics |-> FALSE]
                        [] provider = "mistral" -> FirstText(Field(o, "outputs", <<>>))
         IN  [text |-> first.text, err |-> NilErr, panics |-> first.panics]

\* schema.ModelResult
ModelResult(completion, llmOutput) ==
    [Generations |-> <<[Text |-> completion]>>, LLMOutput |-> llmOutput]

ErrTokenizer == "tokenizer: cannot create GPT2 tokenizer"

\* an override that was not set: a nil pointer
NilV == [t |-> "nil", s |-> <<>>, d |-> <<>>]

AnthropicVersion == StrV(<<"bedrock-2023-05-31">>)

\* BedrockOptions as NewBedrock initialises them, before the option functions
BedrockOptions ==
    [Stream |-> FALSE, ModelParams |-> <<>>, MaxTokens |-> NilV, Temperature |-> NilV,
     TopP |-> NilV, StopSequences |-> <<>>]

\* the parameters of a provider: the three overrides written under the
\* provider's names, as they are, on top of the model parameters
InferenceParams(opts, maxTokens, temperature, topP) ==
    Merge(opts.ModelParams,
          (maxTokens :> opts.MaxTokens) @@ (temperature :> opts.Temperature) @@
          (topP :> opts.TopP))

prepareAI21InferenceParams(opts) == InferenceParams(opts, "maxTokens", "temperature", "topP")

prepareAmazonInferenceParams(opts) == InferenceParams(opts, "maxTokenCount", "temperature", "topP")

prepareAnthropicInferenceParams(opts) ==
    Merge(InferenceParams(opts, "max_tokens", "temperature", "top_p"),
          "anthropic_version" :> AnthropicVersion)

prepareCohereInferenceParams(opts) == InferenceParams(opts, "max_tokens", "temperature", "p")

prepareMetaInferenceParams(opts) == InferenceParams(opts, "max_gen_len", "temperature", "top_p")

prepareMistralInferenceParams(opts) == InferenceParams(opts, "max_tokens", "temperature", "top_p")

prepareModelInferenceParams(opts, modelID) ==
    IF opts.MaxTokens = NilV /\ Len(opts.StopSequences) = 0 /\ opts.Temperature = NilV
       /\ opts.TopP = NilV
    THEN opts.ModelParams
    ELSE LET provider == modelID[1]
         IN  CASE provider = "ai21" -> prepareAI21InferenceParams(opts)
               [] provider = "anthropic" -> prepareAnthropicInferenceParams(opts)
               [] provider = "amazon" -> prepareAmazonInferenceParams(opts)
               [] provider = "cohere" -> prepareCohereInferenceParams(opts)
               [] provider = "meta" -> prepareMetaInferenceParams(opts)
               [] provider = "mistral" -> prepareMistralInferenceParams(opts)
               [] OTHER -> opts.ModelParams

BedrockOff ==
    [pc |-> "off", modelID |-> <<"none">>, opts |-> BedrockOptions,
     given |-> BedrockOptions, newErr |-> NilErr, calls |-> 0, sent |-> <<>>,
     prompt |-> <<>>, stop |-> <<>>,
     client |-> [fails |-> FALSE, response |-> Malformed, events |-> <<>>],
     ctx |-> "live", request |-> <<>>, read |-> <<>>, callbacks |-> <<>>,
     pending |-> streamOutput(<<>>, 0, 0, NilErr, FALSE),
     tokens |-> <<>>, llmOutput |-> <<>>,
     ret |-> [result |-> <<>>, err |-> NilErr]]

\* NewBedrock: the options as the option functions left them, a tokenizer
\* if none was given, the model parameters with the overrides
NewBedrock ==
    /\ bedrock.pc = "new"
    /\ \E tErr \in {NilErr, Err(ErrTokenizer, <<>>)} :
          bedrock' =
             IF tErr # NilErr THEN [bedrock EXCEPT !.pc = "unbuilt", !.newErr = tErr]
             ELSE [bedrock EXCEPT
                     !.pc = "built",
                     !.opts.ModelParams = prepareModelInferenceParams(bedrock.opts, bedrock.modelID)]
    /\ UNCHANGED <<chainVars, agent, loop, fmt, others>>

\* Generate returns: a result or an error
Returns(b, result, err) == [b EXCEPT !.pc = "done", !.ret = [result |-> result, err |-> err]]

\* Generate writing the stop sequences into the model parameters it was configured with
BedrockGenerateSharing ==
    /\ bedrock.pc = "ready"
    /\ LET provider == getProvider(bedrock.modelID)
           params == CopyMap(bedrock.opts.ModelParams)
           ok == provider \in DOMAIN providerStopSequenceKeyMap
           withStop == IF Len(bedrock.stop) > 0 /\ ok
                       THEN Merge(params, providerStopSequenceKeyMap[provider] :> ListV(bedrock.stop))
                       ELSE params
           input == PrepareInput(provider, bedrock.prompt, withStop)
       IN  bedrock' =
             IF Len(bedrock.stop) > 0 /\ ~ok
             THEN Returns(bedrock, <<>>, Err(ErrStopSequenceKey, <<provider>>))
             ELSE IF input.err # NilErr
             THEN Returns(bedrock, <<>>, input.err)
             ELSE [bedrock EXCEPT !.pc = "invoking",
                                  !.request = <<[op |-> IF bedrock.opts.Stream
                                                        THEN "InvokeModelWithResponseStream"
                                                        ELSE "InvokeModel",
                                                 ModelId |-> bedrock.modelID,
                                                 Body |-> input.body]>>,
                                  !.sent = Append(bedrock.sent, input.body),
                                 !.opts.ModelParams = withStop]
    /\ UNCHANGED <<chainVars, agent, loop, fmt, others>>

\* Bedrock.Generate up to the invocation of the client: the provider, a copy
\* of the configured parameters with the stop sequences under the provider's
\* key, the request body
BedrockGenerate ==
    /\ bedrock.pc = "ready"
    /\ LET provider == getProvider(bedrock.modelID)
           params == CopyMap(bedrock.opts.ModelParams)
           ok == provider \in DOMAIN providerStopSequenceKeyMap
           withStop == IF Len(bedrock.stop) > 0 /\ ok
                       THEN Merge(params, providerStopSequenceKeyMap[provider] :> ListV(bedrock.stop))
                       ELSE params
           input == PrepareInput(provider, bedrock.prompt, withStop)
       IN  bedrock' =
             IF Len(bedrock.stop) > 0 /\ ~ok
             THEN Returns(bedrock, <<>>, Err(ErrStopSequenceKey, <<provider>>))
             ELSE IF input.err # NilErr
             THEN Returns(bedrock, <<>>, input.err)
             ELSE [bedrock EXCEPT !.pc = "invoking",
                                  !.request = <<[op |-> IF bedrock.opts.Stream
                                                        THEN "InvokeModelWithResponseStream"
                                                        ELSE "InvokeModel",
                                                 ModelId |-> bedrock.modelID,
                                                 Body |-> input.body]>>,
                                  !.sent = Append(bedrock.sent, input.body)]
    /\ UNCHANGED <<chainVars, agent, loop, fmt, others>>

\* what the client returns for a request whose context is canceled or that it cannot serve
ClientError(b) ==
    IF b.ctx = "canceled" THEN Err(ErrContextCanceled, <<>>)
    ELSE IF b.client.fails THEN Err(ErrClient, <<>>)
    ELSE NilErr

\* InvokeModel returns and Generate decodes the response
InvokeModelReturns ==
    /\ bedrock.pc = "invoking"
    /\ ~bedrock.opts.Stream
    /\ LET output == PrepareOutput(getProvider(bedrock.modelID), bedrock.client.response)
       IN  bedrock' =
             IF ClientError(bedrock) # NilErr THEN Returns(bedrock, <<>>, ClientError(bedrock))
             ELSE IF output.panics THEN [bedrock EXCEPT !.pc = "panicked"]
             ELSE IF output.err # NilErr THEN Returns(bedrock, <<>>, output.err)
             ELSE Returns(bedrock, <<ModelResult(output.text, <<>>)>>, NilErr)
    /\ UNCHANGED <<chainVars, agent, loop, fmt, others>>

\* InvokeModelWithResponseStream returns: an error, or the stream Generate
\* starts to read with no tokens and both counters at zero
InvokeModelWithResponseStreamReturns ==
    /\ bedrock.pc = "invoking"
    /\ bedrock.opts.Stream
    /\ bedrock' =
          IF ClientError(bedrock) # NilErr THEN Returns(bedrock, <<>>, ClientError(bedrock))
          ELSE [bedrock EXCEPT !.pc = "streaming", !.tokens = <<>>,
                               !.llmOutput = ("input_tokens" :> 0) @@ ("output_tokens" :> 0)]
    /\ UNCHANGED <<chainVars, agent, loop, fmt, others>>

\* a stream event whose token is accumulated as soon as it is decoded
StreamEventAccumulating ==
    /\ bedrock.pc = "streaming"
    /\ bedrock.client.events # <<>>
    /\ LET event == Head(bedrock.client.events)
           output == PrepareStreamOutput(getProvider(bedrock.modelID), event.payload)
           taken == [bedrock EXCEPT !.client.events = Tail(bedrock.client.events),
                                    !.read = Append(bedrock.read, event)]
       IN  bedrock' =
             IF event.kind # "chunk" THEN taken
             ELSE IF output.panics THEN [taken EXCEPT !.pc = "panicked"]
             ELSE IF output.err # NilErr THEN Returns(taken, <<>>, output.err)
             ELSE [taken EXCEPT !.pc = "callback",
                                !.pending = [output EXCEPT !.token = <<>>],
                                !.tokens = Append(bedrock.tokens, output.token),
                                !.callbacks = Append(bedrock.callbacks, output.token)]
    /\ UNCHANGED <<chainVars, agent, loop, fmt, others>>

\* a stream event whose decode error is returned with the tokens read so far
StreamEventPartialResult ==
    /\ bedrock.pc = "streaming"
    /\ bedrock.client.events # <<>>
    /\ LET event == Head(bedrock.client.events)
           output == PrepareStreamOutput(getProvider(bedrock.modelID), event.payload)
           taken == [bedrock EXCEPT !.client.events = Tail(bedrock.client.events),
                                    !.read = Append(bedrock.read, event)]
       IN  bedrock' =
             IF event.kind # "chunk" THEN taken
             ELSE IF output.panics THEN [taken EXCEPT !.pc = "panicked"]
             ELSE IF output.err # NilErr
             THEN Returns(taken, <<ModelResult(Join(bedrock.tokens), bedrock.llmOutput)>>, output.err)
             ELSE [taken EXCEPT !.pc = "callback", !.pending = output,
                                !.callbacks = Append(bedrock.callbacks, output.token)]
    /\ UNCHANGED <<chainVars, agent, loop, fmt, others>>

\* one event off the stream: an event that is no chunk is passed over, a
\* chunk is decoded and its token handed to the new-token callback
StreamEvent ==
    /\ bedrock.pc = "streaming"
    /\ bedrock.client.events # <<>>
    /\ LET event == Head(bedrock.client.events)
           output == PrepareStreamOutput(getProvider(bedrock.modelID), event.payload)
           taken == [bedrock EXCEPT !.client.events = Tail(bedrock.client.events),
                                    !.read = Append(bedrock.read, event)]
       IN  bedrock' =
             IF event.kind # "chunk" THEN taken
             ELSE IF output.panics THEN [taken EXCEPT !.pc = "panicked"]
             ELSE IF output.err # NilErr THEN Returns(taken, <<>>, output.err)
             ELSE [taken EXCEPT !.pc = "callback", !.pending = output,
                                !.callbacks = Append(bedrock.callbacks, output.token)]
    /\ UNCHANGED <<chainVars, agent, loop, fmt, others>>

\* OnModelNewToken returning, the usage being that of the latest chunk
OnModelNewTokenReturnsLatestUsage ==
    /\ bedrock.pc = "callback"
    /\ \E failed \in BOOLEAN :
          bedrock' =
             IF failed THEN Returns(bedrock, <<>>, Err(ErrCallback, <<>>))
             ELSE [bedrock EXCEPT
                     !.pc = "streaming",
                     !.tokens = Append(bedrock.tokens, bedrock.pending.token),
                     !.llmOutput = ("input_tokens" :> bedrock.pending.inputTokens) @@
                                   ("output_tokens" :> bedrock.pending.outputTokens)]
    /\ UNCHANGED <<chainVars, agent, loop, fmt, others>>

\* OnModelNewToken returns: its error ends the call, otherwise the token is
\* appended and the chunk's counters are added to the usage
OnModelNewTokenReturns ==
    /\ bedrock.pc = "callback"
    /\ \E failed \in BOOLEAN :
          bedrock' =
             IF failed THEN Returns(bedrock, <<>>, Err(ErrCallback, <<>>))
             ELSE [bedrock EXCEPT
                     !.pc = "streaming",
                     !.tokens = Append(bedrock.tokens, bedrock.pending.token),
                     !.llmOutput = ("input_tokens" :>
                                        AddInt32(bedrock.llmOutput["input_tokens"],
                                                 bedrock.pending.inputTokens)) @@
                                   ("output_tokens" :>
                                        AddInt32(bedrock.llmOutput["output_tokens"],
                                                 bedrock.pending.outputTokens))]
    /\ UNCHANGED <<chainVars, agent, loop, fmt, others>>

\* a closed stream taken for a failure unless its last chunk said it was the last
StreamClosedStrict ==
    /\ bedrock.pc = "streaming"
    /\ bedrock.client.events = <<>> \/ bedrock.ctx = "canceled"
    /\ bedrock' =
          IF bedrock.read # <<>> /\ bedrock.read[Len(bedrock.read)].last
          THEN Returns(bedrock, <<ModelResult(Join(bedrock.tokens), bedrock.llmOutput)>>, NilErr)
          ELSE Returns(bedrock, <<>>, Err(ErrClient, <<>>))
    /\ UNCHANGED <<chainVars, agent, loop, fmt, others>>

\* the events channel is closed (the stream is over, or the canceled context
\* ended it): the tokens are joined and returned with the usage
StreamClosed ==
    /\ bedrock.pc = "streaming"
    /\ bedrock.client.events = <<>> \/ bedrock.ctx = "canceled"
    /\ bedrock' = Returns(bedrock, <<ModelResult(Join(bedrock.tokens), bedrock.llmOutput)>>, NilErr)
    /\ UNCHANGED <<chainVars, agent, loop, fmt, others>>

\* what the client does with the request of one call among several
CallClients(vendor, stream) ==
    {[fails |-> TRUE, response |-> Malformed, events |-> <<>>],
     [fails |-> FALSE, response |-> Malformed,
      events |-> IF stream
                 THEN <<[kind |-> "chunk", last |-> FALSE, token |-> <<>>, inputTokens |-> 0,
                         outputTokens |-> 0, payload |-> Malformed]>>
                 ELSE <<>>],
     [fails |-> FALSE,
      response |-> Payload(IF vendor = "ai21" THEN "completions" :> <<[data |-> [text |-> <<"a">>]]>>
                           ELSE ("results" :> <<[text |-> <<"a">>]>>) @@
                                ("content" :> <<[text |-> <<"a">>]>>) @@
                                ("generations" :> <<[text |-> <<"a">>]>>) @@
                                ("outputs" :> <<[text |-> <<"a">>]>>) @@
                                ("text" :> <<"a">>) @@ ("generation" :> <<"a">>)),
      events |-> IF stream
                 THEN <<[kind |-> "chunk", last |-> TRUE, token |-> <<"a">>, inputTokens |-> 1,
                         outputTokens |-> 1,
                         payload |-> Payload(("outputText" :> <<"a">>) @@
                                             ("delta" :> [text |-> <<"a">>]) @@
                                             ("generations" :> <<[text |-> <<"a">>]>>) @@
                                             ("outputs" :> <<[text |-> <<"a">>]>>) @@
                                             ("text" :> <<"a">>) @@ ("generation" :> <<"a">>) @@
                                             ("amazon-bedrock-invocationMetrics" :>
                                                  BedrockInvocationMetrics(1, 1)))]>>
                 ELSE <<>>]}

\* a caller calls Generate on the model: the first call, or one more; each
\* call has a prompt of its own, and stop sequences or none
BedrockCall ==
    /\ bedrock.pc \in {"built", "done"}
    /\ bedrock.calls < MaxCalls
    /\ \E stop \in {<<>>, <<<<"\n">>>>}, c \in CallClients(bedrock.modelID[1], bedrock.opts.Stream) :
          bedrock' = [bedrock EXCEPT
                        !.pc = "ready", !.calls = bedrock.calls + 1,
                        !.prompt = [k \in 1..(bedrock.calls + 1) |-> "p"],
                        !.stop = stop, !.client = c, !.ctx = "live", !.request = <<>>,
                        !.read = <<>>, !.callbacks = <<>>, !.tokens = <<>>, !.llmOutput = <<>>,
                        !.pending = streamOutput(<<>>, 0, 0, NilErr, FALSE),
                        !.ret = [result |-> <<>>, err |-> NilErr]]
    /\ UNCHANGED <<chainVars, agent, loop, fmt, others>>

\* the caller cancels the context of the call
Cancel ==
    /\ bedrock.pc \in {"ready", "invoking", "streaming", "callback"}
    /\ bedrock.ctx = "live"
    /\ bedrock' = [bedrock EXCEPT !.ctx = "canceled"]
    /\ UNCHANGED <<chainVars, agent, loop, fmt, others>>

(***************************************************************************)
(* Chat messages and the OpenAI chat model.                                *)
(***************************************************************************)

ChatMessageTypeHuman == "human"

ChatMessageTypeAI == "ai"

ChatMessageTypeSystem == "system"

ChatMessageTypeGeneric == "generic"

\* a chat message: its type, its text, the role of a generic message, and
\* whether the interface value holds a pointer to the struct or the struct
ChatMessage(type, text, role, pointer) ==
    [type |-> type, text |-> text, role |-> role, pointer |-> pointer]

NewHumanChatMessage(text) == ChatMessage(ChatMessageTypeHuman, text, <<>>, TRUE)

NewAIChatMessage(text) == ChatMessage(ChatMessageTypeAI, text, <<>>, TRUE)

NewSystemChatMessage(text) == ChatMessage(ChatMessageTypeSystem, text, <<>>, TRUE)

NewGenericChatMessage(text, role) == ChatMessage(ChatMessageTypeGeneric, text, role, TRUE)

ErrUnknownMessageType == "unknown message type"

messageTypeToOpenAIRole(mType) ==
    CASE mType = ChatMessageTypeSystem -> [role |-> "system", err |-> NilErr]
      [] mType = ChatMessageTypeAI -> [role |-> "assistant", err |-> NilErr]
      [] mType = ChatMessageTypeHuman -> [role |-> "user", err |-> NilErr]
      [] OTHER -> [role |-> "", err |-> Err(ErrUnknownMessageType, <<mType>>)]

openAIResponseToChatMessage(role, text) ==
    CASE role = "user" -> NewHumanChatMessage(text)
      [] role = "assistant" -> NewAIChatMessage(text)
      [] role = "system" -> NewSystemChatMessage(text)
      [] OTHER -> NewGenericChatMessage(text, <<"unknown">>)

\* openai.ChatCompletionMessage
ChatCompletionMessage(role, content) == [Role |-> role, Content |-> content]

\* the loop of OpenAI.Generate over the first n messages: the request
\* messages so far, or the error of the first message it cannot map
RECURSIVE openAIMessages(_, _)
openAIMessages(messages, n) ==
    IF n = 0 THEN [messages |-> <<>>, err |-> NilErr]
    ELSE LET before == openAIMessages(messages, n - 1)
             mapped == messageTypeToOpenAIRole(messages[n].type)
         IN  IF before.err # NilErr THEN before
             ELSE IF mapped.err # NilErr THEN [messages |-> <<>>, err |-> mapped.err]
             ELSE [messages |-> Append(before.messages,
                                       ChatCompletionMessage(mapped.role, messages[n].text)),
                   err |-> NilErr]

OpenAIOff ==
    [pc |-> "off", ModelName |-> "gpt-3.5-turbo", messages |-> <<>>,
     client |-> [fails |-> FALSE, choices |-> <<>>], request |-> <<>>,
     ret |-> [result |-> <<>>, err |-> NilErr]]

\* OpenAI.Generate passing over the messages whose type has no role
OpenAIGenerateDropping ==
    /\ openai.pc = "ready"
    /\ LET kept == SelectSeq(openai.messages,
                             LAMBDA m : messageTypeToOpenAIRole(m.type).err = NilErr)
           built == openAIMessages(kept, Len(kept))
       IN  openai' =
             IF built.err # NilErr
             THEN [openai EXCEPT !.pc = "done", !.ret = [result |-> <<>>, err |-> built.err]]
             ELSE [openai EXCEPT !.pc = "invoking",
                                 !.request = <<[Model |-> openai.ModelName,
                                                Messages |-> built.messages]>>]
    /\ UNCHANGED <<chainVars, agent, loop, fmt, bedrock, simple, stringify, qaeval>>

\* OpenAI.Generate up to the call of the client: one request message per
\* message, or the error of the first message whose type has no role
OpenAIGenerate ==
    /\ openai.pc = "ready"
    /\ LET built == openAIMessages(openai.messages, Len(openai.messages))
       IN  openai' =
             IF built.err # NilErr
             THEN [openai EXCEPT !.pc = "done", !.ret = [result |-> <<>>, err |-> built.err]]
             ELSE [openai EXCEPT !.pc = "invoking",
                                 !.request = <<[Model |-> openai.ModelName,
                                                Messages |-> built.messages]>>]
    /\ UNCHANGED <<chainVars, agent, loop, fmt, bedrock, simple, stringify, qaeval>>

\* CreateChatCompletion returns: its error, or the choices of which
\* Generate takes the first; with no choice the index expression panics
CreateChatCompletionReturns ==
    /\ openai.pc = "invoking"
    /\ openai' =
          IF openai.client.fails
          THEN [openai EXCEPT !.pc = "done",
                              !.ret = [result |-> <<>>, err |-> Err(ErrClient, <<>>)]]
          ELSE IF openai.client.choices = <<>> THEN [openai EXCEPT !.pc = "panicked"]
          ELSE LET text == openai.client.choices[1].Content
                   role == openai.client.choices[1].Role
               IN  [openai EXCEPT
                      !.pc = "done",
                      !.ret = [result |-> <<[Generations |->
                                                <<<<[Text |-> text,
                                                     Message |-> openAIResponseToChatMessage(role, text)]>>>>,
                                             LLMOutput |-> <<>>]>>,
                               err |-> NilErr]]
    /\ UNCHANGED <<chainVars, agent, loop, fmt, bedrock, simple, stringify, qaeval>>

(***************************************************************************)
(* StringifyChatMessages.                                                  *)
(***************************************************************************)

ErrUnknownChatMessageType == "unknown chat message type"

\* StringifyChatMessagesOptions as StringifyChatMessages initialises them
StringifyChatMessagesOptions ==
    [HumanPrefix |-> <<"Human">>, AIPrefix |-> <<"AI">>, SystemPrefix |-> <<"System">>]

\* message.(GenericChatMessage): the assertion holds only if the interface
\* value holds a GenericChatMessage struct; with a pointer to it, it panics
AssertGenericChatMessage(message) ==
    [role |-> message.role, panics |-> message.pointer]

\* strings.Join(lines, "\n") of the first n lines
RECURSIVE JoinLines(_, _)
JoinLines(lines, n) ==
    IF n = 0 THEN <<>>
    ELSE IF n = 1 THEN lines[1]
    ELSE JoinLines(lines, n - 1) \o <<"\n">> \o lines[n]

\* the loop of StringifyChatMessages over the first n messages: the lines so
\* far, or the error or the panic that ended it
RECURSIVE StringifyLines(_, _, _)
StringifyLines(messages, opts, n) ==
    IF n = 0 THEN [result |-> <<>>, err |-> NilErr, panics |-> FALSE]
    ELSE LET before == StringifyLines(messages, opts, n - 1)
             message == messages[n]
             generic == AssertGenericChatMessage(message)
             known == message.type \in {ChatMessageTypeHuman, ChatMessageTypeAI,
                                        ChatMessageTypeSystem, ChatMessageTypeGeneric}
             role == CASE message.type = ChatMessageTypeHuman -> opts.HumanPrefix
                       [] message.type = ChatMessageTypeAI -> opts.AIPrefix
                       [] message.type = ChatMessageTypeSystem -> opts.SystemPrefix
                       [] OTHER -> generic.role
         IN  IF before.err # NilErr \/ before.panics THEN before
             ELSE IF ~known
             THEN [result |-> <<>>, err |-> Err(ErrUnknownChatMessageType, <<message.type>>),
                   panics |-> FALSE]
             ELSE IF message.type = ChatMessageTypeGeneric /\ generic.panics
             THEN [result |-> <<>>, err |-> NilErr, panics |-> TRUE]
             ELSE [result |-> Append(before.result, role \o <<": ">> \o message.text),
                   err |-> NilErr, panics |-> FALSE]

StringifyOff ==
    [pc |-> "off", messages |-> <<>>, opts |-> StringifyChatMessagesOptions,
     ret |-> [text |-> <<>>, err |-> NilErr]]

\* StringifyChatMessages
StringifyChatMessages ==
    /\ stringify.pc = "ready"
    /\ LET lines == StringifyLines(stringify.messages, stringify.opts, Len(stringify.messages))
       IN  stringify' =
             IF lines.panics THEN [stringify EXCEPT !.pc = "panicked"]
             ELSE IF lines.err # NilErr
             THEN [stringify EXCEPT !.pc = "done", !.ret = [text |-> <<>>, err |-> lines.err]]
             ELSE [stringify EXCEPT
                     !.pc = "done",
                     !.ret = [text |-> JoinLines(lines.result, Len(lines.result)),
                              err |-> NilErr]]
    /\ UNCHANGED <<chainVars, agent, loop, fmt, bedrock, openai, simple, qaeval>>

(***************************************************************************)
(* QAEvalChain and ContextQAEvalChain.                                     *)
(***************************************************************************)

ErrApply == "chain.Apply: a chain call failed"

\* m[key] of a map[string]string: the empty string for a key the map lacks
Lookup(m, key) == IF key \in DOMAIN m THEN m[key] ELSE <<>>

\* an evaluation chain as NewQAEvalChain and NewContextQAEvalChain build it
QAEvalOff ==
    [pc |-> "off", chain |-> "QAEvalChain", questionKey |-> "query", answerKey |-> "answer",
     contextKey |-> "context", predictionKey |-> "result", examples |-> <<>>,
     predictions |-> <<>>, inputs |-> <<>>, ret |-> [out |-> <<>>, err |-> NilErr]]

\* the loop of Evaluate: one chain input per example; predictions[i] of a
\* list with fewer than i entries panics
EvaluateInputs(eval, second, secondKey) ==
    IF Len(eval.predictions) < Len(eval.examples) THEN [inputs |-> <<>>, panics |-> TRUE]
    ELSE [inputs |-> [i \in 1..Len(eval.examples) |->
                         ("query" :> StrV(Lookup(eval.examples[i], eval.questionKey))) @@
                         (second :> StrV(Lookup(eval.examples[i], secondKey))) @@
                         ("result" :> StrV(Lookup(eval.predictions[i], eval.predictionKey)))],
          panics |-> FALSE]

\* QAEvalChain.Evaluate up to the call of chain.Apply
QAEvalChainEvaluate ==
    /\ qaeval.pc = "ready"
    /\ qaeval.chain = "QAEvalChain"
    /\ LET built == EvaluateInputs(qaeval, "answer", qaeval.answerKey)
       IN  qaeval' = IF built.panics THEN [qaeval EXCEPT !.pc = "panicked"]
                     ELSE [qaeval EXCEPT !.pc = "applying", !.inputs = built.inputs]
    /\ UNCHANGED <<chainVars, agent, loop, fmt, bedrock, openai, simple, stringify>>

\* ContextQAEvalChain.Evaluate up to the call of chain.Apply
ContextQAEvalChainEvaluate ==
    /\ qaeval.pc = "ready"
    /\ qaeval.chain = "ContextQAEvalChain"
    /\ LET built == EvaluateInputs(qaeval, "context", qaeval.contextKey)
       IN  qaeval' = IF built.panics THEN [qaeval EXCEPT !.pc = "panicked"]
                     ELSE [qaeval EXCEPT !.pc = "applying", !.inputs = built.inputs]
    /\ UNCHANGED <<chainVars, agent, loop, fmt, bedrock, openai, simple, stringify>>

\* chain.Apply returns and Evaluate returns what it returned: an error, or
\* one output per input
ApplyReturns ==
    /\ qaeval.pc = "applying"
    /\ \E failed \in BOOLEAN :
          qaeval' =
             IF failed
             THEN [qaeval EXCEPT !.pc = "done",
                                 !.ret = [out |-> <<>>, err |-> Err(ErrApply, <<>>)]]
             ELSE [qaeval EXCEPT
                     !.pc = "done",
                     !.ret = [out |-> [i \in 1..Len(qaeval.inputs) |->
                                          "text" :> StrV(<<"CORRECT">>)],
                              err |-> NilErr]]
    /\ UNCHANGED <<chainVars, agent, loop, fmt, bedrock, openai, simple, stringify>>

(***************************************************************************)
(* The Simple memory: a map of memories set when it is built; log is the   *)
(* calls made on it, each with its arguments and what it returned.         *)
(***************************************************************************)

\* the maps stored in a memory or passed to it
SimpleValues ==
    {<<>>,
     ("name" :> StrV(<<"John">>)) @@ ("age" :> StrV(<<"30">>)),
     ("var1" :> StrV(<<"value1">>)) @@ ("var2" :> StrV(<<"value2">>)),
     ("name" :> StrV(<<"Jane">>)) @@ ("var1" :> StrV(<<"value1">>))}

\* the outputs of a chain call handed to SaveContext
SimpleOutputs == {<<>>, ("var1" :> StrV(<<"value1">>)) @@ ("var2" :> StrV(<<"value2">>))}

\* NewSimple: no memories
NewSimple == [pc |-> "ready", memories |-> <<>>, log |-> <<>>]

SimpleOff == [pc |-> "off", memories |-> <<>>, log |-> <<>>]

\* one call on the memory and what it returned
SimpleCall(method, inputs, outputs, out, err) ==
    [method |-> method, inputs |-> inputs, outputs |-> outputs, out |-> out, err |-> err]

\* Simple.MemoryVariables: the keys of the memories
SimpleMemoryVariables ==
    /\ simple.pc = "ready"
    /\ Len(simple.log) < MaxOps
    /\ simple' = [simple EXCEPT
                    !.log = Append(simple.log,
                                   SimpleCall("MemoryVariables", <<>>, <<>>,
                                              DOMAIN simple.memories, NilErr))]
    /\ UNCHANGED <<chainVars, agent, loop, fmt, bedrock, openai, stringify, qaeval>>

\* LoadMemoryVariables returning the inputs along with the memories
SimpleLoadMemoryVariablesEchoing ==
    /\ simple.pc = "ready"
    /\ Len(simple.log) < MaxOps
    /\ \E inputs \in SimpleValues :
          simple' = [simple EXCEPT
                       !.log = Append(simple.log,
                                      SimpleCall("LoadMemoryVariables", inputs, <<>>,
                                                 Merge(inputs, simple.memories), NilErr))]
    /\ UNCHANGED <<chainVars, agent, loop, fmt, bedrock, openai, stringify, qaeval>>

\* Simple.LoadMemoryVariables: the memories, whatever the inputs
SimpleLoadMemoryVariables ==
    /\ simple.pc = "ready"
    /\ Len(simple.log) < MaxOps
    /\ \E inputs \in SimpleValues :
          simple' = [simple EXCEPT
                       !.log = Append(simple.log,
                                      SimpleCall("LoadMemoryVariables", inputs, <<>>,
                                                 simple.memories, NilErr))]
    /\ UNCHANGED <<chainVars, agent, loop, fmt, bedrock, openai, stringify, qaeval>>

\* SaveContext storing the inputs and the outputs of the call
SimpleSaveContextStoring ==
    /\ simple.pc = "ready"
    /\ Len(simple.log) < MaxOps
    /\ \E inputs \in SimpleValues, outputs \in SimpleOutputs :
          simple' = [simple EXCEPT
                       !.memories = Merge(Merge(simple.memories, inputs), outputs),
                       !.log = Append(simple.log,
                                      SimpleCall("SaveContext", inputs, outputs, <<>>, NilErr))]
    /\ UNCHANGED <<chainVars, agent, loop, fmt, bedrock, openai, stringify, qaeval>>

\* Simple.SaveContext: nothing is stored, no error
SimpleSaveContext ==
    /\ simple.pc = "ready"
    /\ Len(simple.log) < MaxOps
    /\ \E inputs \in SimpleValues, outputs \in SimpleOutputs :
          simple' = [simple EXCEPT
                       !.log = Append(simple.log,
                                      SimpleCall("SaveContext", inputs, outputs, <<>>, NilErr))]
    /\ UNCHANGED <<chainVars, agent, loop, fmt, bedrock, openai, stringify, qaeval>>

\* Simple.Clear: nothing is removed, no error
SimpleClear ==
    /\ simple.pc = "ready"
    /\ Len(simple.log) < MaxOps
    /\ simple' = [simple EXCEPT
                    !.log = Append(simple.log, SimpleCall("Clear", <<>>, <<>>, <<>>, NilErr))]
    /\ UNCHANGED <<chainVars, agent, loop, fmt, bedrock, openai, stringify, qaeval>>

(***************************************************************************)
(* Inputs.                                                                 *)
(***************************************************************************)
\* the documents callers supply
Docs ==
    {Document(<<"a">>, <<>>),
     Document(<<"b">>, "source" :> <<"s">>),
     Document(<<"c">>, "pageContent" :> <<"z">>)}

DocLists == UNION {[1..n -> Docs] : n \in 0..MaxDocs}

\* the values a caller passes to a chain call
CallerValues ==
    {Merge(Merge(d, q), c) :
        d \in {<<>>, "inputDocuments" :> StrV(<<"a">>)}
              \cup {"inputDocuments" :> DocsV(l) : l \in DocLists},
        q \in {<<>>, "question" :> StrV(<<"q">>)},
        c \in {<<>>, "context" :> StrV(<<"k">>)}}

\* the memories a chain may have attached
Memories ==
    {NoMemory,
     [attached |-> TRUE, memories |-> "question" :> StrV(<<"m">>), loadFails |-> FALSE],
     [attached |-> TRUE, memories |-> "history" :> StrV(<<"h">>), loadFails |-> FALSE],
     [attached |-> TRUE, memories |-> <<>>, loadFails |-> TRUE]}

Configs ==
    [values : CallerValues, memory : Memories, failAt : 0..(MaxDocs + 1), nBest : 1..MaxNBest]

\* the tokens of a model generation
Alphabet == {actionMarker, actionInputMarker, finalAnswerAction, " ", "\n", "x", "y"}

Texts == UNION {[1..n -> Alphabet] : n \in 0..MaxLen}

\* the texts the design quotes
ExampleAction ==
    <<"Action:", " ", "search", "\n", "Action Input:", " ", "capital", " ", "of", " ", "France">>

ExampleFinish == <<"...", " ", "Final Answer:", " ", "Paris">>

OneStep == <<AgentStep(AgentAction(<<"t">>, <<"i">>, <<"l">>), <<"o">>)>>

TwoSteps ==
    <<AgentStep(AgentAction(<<"t">>, <<"i">>, <<"l">>), <<"o">>),
      AgentStep(AgentAction(<<"u">>, <<"j">>, <<"m", " ", "n">>), <<>>)>>

AgentInits ==
    {AgentReady("input" :> <<"q">>, <<>>, [fail |-> FALSE, text |-> t]) :
        t \in Texts \cup {ExampleAction, ExampleFinish}}
    \cup
    {AgentReady(i, st, r) :
        i \in {<<>>, "input" :> <<"q">>, ("input" :> <<"q">>) @@ ("agentScratchpad" :> <<"p">>)},
        st \in {<<>>, OneStep, TwoSteps},
        r \in {[fail |-> TRUE, text |-> <<>>], [fail |-> FALSE, text |-> <<"x">>],
               [fail |-> FALSE, text |-> <<" ", finalAnswerAction, "y", "\n">>]}}

\* what the model answers inside a loop: nothing (the provider fails), an
\* action, another action, a final answer, a text that is neither
LoopAnswers ==
    {[fail |-> TRUE, text |-> <<>>],
     [fail |-> FALSE, text |-> <<actionMarker, " ", "t", "\n", actionInputMarker, " ", "i">>],
     [fail |-> FALSE, text |-> <<actionMarker, "u", actionInputMarker, "j">>],
     [fail |-> FALSE, text |-> <<finalAnswerAction, "y">>],
     [fail |-> FALSE, text |-> <<"x">>]}

LoopInits ==
    {[LoopOff EXCEPT !.pc = "running", !.inputs = i, !.script = sc] :
        i \in {<<>>, "input" :> <<"q">>},
        sc \in UNION {[1..n -> LoopAnswers] : n \in 0..MaxSteps}}

\* the nodes of a parsed template: a text, or an action referencing a field
Nodes == {Lit("a"), Var("query"), Var("name")}

Templates == UNION {[1..n -> Nodes] : n \in 0..MaxNodes}

\* the maps callers render on
RenderValues ==
    {Merge(Merge(q, n), e) :
        q \in {<<>>, "query" :> StrV(<<"x">>), "query" :> StrV(<<"y", " ", "z">>)},
        n \in {<<>>, "name" :> StrV(<<"n">>), "name" :> StrV(<<>>)},
        e \in {<<>>, "extra" :> StrV(<<"e">>)}}

FmtInits ==
    {[FmtOff EXCEPT !.pc = "new", !.tpl = t, !.values = v] : t \in Templates, v \in RenderValues}

\* the model ids a Bedrock model is constructed with
ModelIDs ==
    {<<"ai21", "j2-mid-v1">>, <<"amazon", "titan-text-express-v1">>,
     <<"anthropic", "claude-3-sonnet">>, <<"cohere", "command-text-v14">>,
     <<"cohere", "command-r", "v1:0">>, <<"meta", "llama3-8b-instruct-v1:0">>,
     <<"mistral", "mistral-7b-instruct-v0:2">>, <<"stability", "sdxl">>}

\* the body a provider sends for a text: whole response, or chunk of a stream
ProviderDoc(vendor, text) ==
    CASE vendor = "ai21" -> "completions" :> <<[data |-> [text |-> text]]>>
      [] vendor = "amazon" -> ("outputText" :> text) @@ ("results" :> <<[text |-> text]>>)
      [] vendor = "anthropic" -> ("delta" :> [text |-> text]) @@ ("content" :> <<[text |-> text]>>)
      [] vendor = "cohere" -> ("generations" :> <<[text |-> text]>>) @@ ("text" :> text)
      [] vendor = "mistral" -> "outputs" :> <<[text |-> text]>>
      [] OTHER -> "generation" :> text

\* a body whose list of completions is empty
EmptyDoc(vendor) ==
    CASE vendor = "ai21" -> "completions" :> <<>>
      [] vendor = "amazon" -> "results" :> <<>>
      [] vendor = "anthropic" -> "content" :> <<>>
      [] vendor = "cohere" -> "generations" :> <<>>
      [] vendor = "mistral" -> "outputs" :> <<>>
      [] OTHER -> "other" :> <<>>

\* a stream event: a chunk or an event of another kind.  A chunk carries a
\* token and two usage counters, encoded in its payload as the provider
\* encodes them; last: the provider marks it as the one that finishes the
\* generation
Chunk(vendor, token, inputTokens, outputTokens, last) ==
    [kind |-> "chunk", last |-> last, token |-> token,
     inputTokens |-> inputTokens, outputTokens |-> outputTokens,
     payload |-> Payload(ProviderDoc(vendor, token) @@
                         ("amazon-bedrock-invocationMetrics" :>
                              BedrockInvocationMetrics(inputTokens, outputTokens)))]

StreamEvents(vendor) ==
    {Chunk(vendor, <<"H", "e", "l">>, 3, 1, FALSE),
     Chunk(vendor, <<"l", "o">>, 0, 2, TRUE),
     [kind |-> "chunk", last |-> FALSE, token |-> <<>>, inputTokens |-> 0, outputTokens |-> 0,
      payload |-> Payload(EmptyDoc(vendor))],
     [kind |-> "chunk", last |-> FALSE, token |-> <<>>, inputTokens |-> 0, outputTokens |-> 0,
      payload |-> Malformed],
     [kind |-> "other", last |-> FALSE, token |-> <<>>, inputTokens |-> 0, outputTokens |-> 0,
      payload |-> Malformed]}

\* what the client does with a request: fail, answer with a response, stream events
Clients(vendor, stream) ==
    {[fails |-> TRUE, response |-> Malformed, events |-> <<>>]}
    \cup
    (IF stream
     THEN {[fails |-> FALSE, response |-> Malformed, events |-> e] :
              e \in UNION {[1..n -> StreamEvents(vendor)] : n \in 0..MaxChunks}}
     ELSE {[fails |-> FALSE, response |-> r, events |-> <<>>] :
              r \in {Payload(ProviderDoc(vendor, <<"H", "e", "l", "l", "o">>)),
                     Payload(EmptyDoc(vendor)), Malformed}})

\* a Bedrock model about to be constructed, with the options the option functions set
BedrockNew(id, given) ==
    [BedrockOff EXCEPT !.pc = "new", !.modelID = id, !.opts = given, !.given = given]

\* a Bedrock model as constructed and the Generate call about to be made on it
BedrockReady(id, stream, mp, stop, c) ==
    [BedrockOff EXCEPT !.pc = "ready", !.modelID = id,
                       !.opts = [BedrockOptions EXCEPT !.Stream = stream, !.ModelParams = mp],
                       !.prompt = <<"p">>, !.stop = stop, !.client = c]

(***************************************************************************)
(* Specifications.                                                         *)
(***************************************************************************)

\* nothing is going on in the chat model, the Simple memory, the transcript
\* and the evaluation chains
OthersOff ==
    /\ openai = OpenAIOff
    /\ simple = SimpleOff
    /\ stringify = StringifyOff
    /\ qaeval = QAEvalOff
ChainIdle ==
    /\ cfg = [values |-> <<>>, memory |-> NoMemory, failAt |-> 0, nBest |-> 1]
    /\ pc = "off"
    /\ op = "none"
    /\ docs = <<>>
    /\ rest = <<>>
    /\ idx = 0
    /\ res = <<>>
    /\ ret = NoReturn
    /\ trace = <<>>

\* one chain call: a refine call or a call of the LLM chain
Init ==
    /\ OthersOff
    /\ cfg \in Configs
    /\ pc = "start"
    /\ op = "none"
    /\ docs = <<>>
    /\ rest = <<>>
    /\ idx = 0
    /\ res = <<>>
    /\ ret = NoReturn
    /\ trace = <<>>
    /\ agent = AgentOff
    /\ loop = LoopOff
    /\ fmt = FmtOff
    /\ bedrock = BedrockOff

Next ==
    \/ RefineEnter
    \/ RefineInitial
    \/ RefineStep
    \/ RefineReturn
    \/ LLMChainCallOp

Spec == Init /\ [][Next]_vars

\* one Plan call of the agent, or its output parser on a model text
InitAgent ==
    /\ OthersOff
    /\ ChainIdle
    /\ agent \in AgentInits
    /\ loop = LoopOff
    /\ fmt = FmtOff
    /\ bedrock = BedrockOff

NextAgent ==
    \/ Plan
    \/ ParseOutput

SpecAgent == InitAgent /\ [][NextAgent]_vars

\* one run of the agent loop
InitLoop ==
    /\ OthersOff
    /\ ChainIdle
    /\ agent = AgentOff
    /\ loop \in LoopInits
    /\ fmt = FmtOff
    /\ bedrock = BedrockOff

NextLoop ==
    \/ LoopCallsPlan
    \/ Plan
    \/ LoopTakes

SpecLoop == InitLoop /\ [][NextLoop]_vars

\* one formatter: constructed, then rendered
InitFormatter ==
    /\ OthersOff
    /\ ChainIdle
    /\ agent = AgentOff
    /\ loop = LoopOff
    /\ fmt \in FmtInits
    /\ bedrock = BedrockOff

NextFormatter ==
    \/ NewFormatter
    \/ FormatterRender

SpecFormatter == InitFormatter /\ [][NextFormatter]_vars

\* one Generate call of a Bedrock model
InitBedrock ==
    /\ OthersOff
    /\ ChainIdle
    /\ agent = AgentOff
    /\ loop = LoopOff
    /\ fmt = FmtOff
    /\ \E id \in ModelIDs, stream \in BOOLEAN :
          \E mp \in {<<>>, "temperature" :> StrV(<<"0.5">>)}, stop \in {<<>>, <<<<"\n">>>>},
             c \in Clients(id[1], stream) :
                bedrock = BedrockReady(id, stream, mp, stop, c)

NextBedrock ==
    \/ BedrockGenerate
    \/ InvokeModelReturns
    \/ InvokeModelWithResponseStreamReturns
    \/ StreamEvent
    \/ OnModelNewTokenReturns
    \/ StreamClosed
    \/ Cancel

SpecBedrock == InitBedrock /\ [][NextBedrock]_vars

\* a Bedrock model from its construction on, through the Generate calls made on it
InitBedrockModel ==
    /\ OthersOff
    /\ ChainIdle
    /\ agent = AgentOff
    /\ loop = LoopOff
    /\ fmt = FmtOff
    /\ \E id \in ModelIDs, stream \in BOOLEAN :
          \E mp \in {<<>>, ("temperature" :> StrV(<<"1">>)) @@ ("top_k" :> StrV(<<"1">>))},
             maxTokens \in {NilV, StrV(<<"2">>)}, temperature \in {NilV, StrV(<<"2">>)},
             topP \in {NilV, StrV(<<"2">>)}, stopSequences \in {<<>>, <<<<"END">>>>} :
                bedrock = BedrockNew(id, [Stream |-> stream, ModelParams |-> mp,
                                          MaxTokens |-> maxTokens, Temperature |-> temperature,
                                          TopP |-> topP, StopSequences |-> stopSequences])

NextBedrockModel ==
    \/ NewBedrock
    \/ BedrockCall
    \/ BedrockGenerate
    \/ InvokeModelReturns
    \/ InvokeModelWithResponseStreamReturns
    \/ StreamEvent
    \/ OnModelNewTokenReturns
    \/ StreamClosed

SpecBedrockModel == InitBedrockModel /\ [][NextBedrockModel]_vars

\* the chat messages a caller passes: built with the constructors, the zero
\* value of the generic message, or of a type of the caller's own
ChatMessages ==
    {NewHumanChatMessage(<<"h">>), NewAIChatMessage(<<"a">>), NewSystemChatMessage(<<"s">>),
     NewGenericChatMessage(<<"g">>, <<"critic">>), NewHumanChatMessage(<<>>),
     ChatMessage(ChatMessageTypeGeneric, <<>>, <<>>, FALSE),
     ChatMessage("function", <<"f">>, <<>>, TRUE)}

\* what the OpenAI client answers
OpenAIClients ==
    {[fails |-> TRUE, choices |-> <<>>],
     [fails |-> FALSE, choices |-> <<>>],
     [fails |-> FALSE, choices |-> <<ChatCompletionMessage("assistant", <<"ok">>)>>],
     [fails |-> FALSE, choices |-> <<ChatCompletionMessage("tool", <<"ok">>)>>]}

\* a Generate call on the OpenAI chat model
InitOpenAI ==
    /\ ChainIdle
    /\ agent = AgentOff
    /\ loop = LoopOff
    /\ fmt = FmtOff
    /\ bedrock = BedrockOff
    /\ simple = SimpleOff
    /\ stringify = StringifyOff
    /\ qaeval = QAEvalOff
    /\ \E n \in 0..MaxMessages :
          \E messages \in [1..n -> ChatMessages], c \in OpenAIClients :
             openai = [OpenAIOff EXCEPT !.pc = "ready", !.messages = messages, !.client = c]

NextOpenAI ==
    \/ OpenAIGenerate
    \/ CreateChatCompletionReturns

SpecOpenAI == InitOpenAI /\ [][NextOpenAI]_vars

\* the calls made on a Simple memory whose memories were set beforehand
InitSimple ==
    /\ ChainIdle
    /\ agent = AgentOff
    /\ loop = LoopOff
    /\ fmt = FmtOff
    /\ bedrock = BedrockOff
    /\ openai = OpenAIOff
    /\ stringify = StringifyOff
    /\ qaeval = QAEvalOff
    /\ \E memories \in SimpleValues : simple = [NewSimple EXCEPT !.memories = memories]

NextSimple ==
    \/ SimpleMemoryVariables
    \/ SimpleLoadMemoryVariables
    \/ SimpleSaveContext
    \/ SimpleClear

SpecSimple == InitSimple /\ [][NextSimple]_vars

\* a StringifyChatMessages call, with the default prefixes or one of the caller's
InitStringify ==
    /\ ChainIdle
    /\ agent = AgentOff
    /\ loop = LoopOff
    /\ fmt = FmtOff
    /\ bedrock = BedrockOff
    /\ openai = OpenAIOff
    /\ simple = SimpleOff
    /\ qaeval = QAEvalOff
    /\ \E n \in 0..MaxMessages :
          \E messages \in [1..n -> ChatMessages],
             opts \in {StringifyChatMessagesOptions,
                       [StringifyChatMessagesOptions EXCEPT !.HumanPrefix = <<"User">>]} :
             stringify = [StringifyOff EXCEPT !.pc = "ready", !.messages = messages,
                                              !.opts = opts]

NextStringify == StringifyChatMessages

SpecStringify == InitStringify /\ [][NextStringify]_vars

\* the examples of an evaluation: with every key, or lacking some
Examples ==
    {("query" :> <<"q1">>) @@ ("answer" :> <<"a1">>) @@ ("context" :> <<"c1">>),
     ("query" :> <<"q2">>) @@ ("answer" :> <<"a2">>) @@ ("context" :> <<"c2">>),
     ("query" :> <<"q3">>)}

\* the predictions: with the prediction key or without
Predictions == {"result" :> <<"r1">>, "result" :> <<"r2">>, "text" :> <<"r3">>}

\* an Evaluate call on one of the two evaluation chains
InitQAEval ==
    /\ ChainIdle
    /\ agent = AgentOff
    /\ loop = LoopOff
    /\ fmt = FmtOff
    /\ bedrock = BedrockOff
    /\ openai = OpenAIOff
    /\ simple = SimpleOff
    /\ stringify = StringifyOff
    /\ \E n \in 0..MaxExamples, m \in 0..MaxExamples :
          \E examples \in [1..n -> Examples], predictions \in [1..m -> Predictions],
             chain \in {"QAEvalChain", "ContextQAEvalChain"} :
             qaeval = [QAEvalOff EXCEPT !.pc = "ready", !.chain = chain,
                                        !.examples = examples, !.predictions = predictions]

NextQAEval ==
    \/ QAEvalChainEvaluate
    \/ ContextQAEvalChainEvaluate
    \/ ApplyReturns

SpecQAEval == InitQAEval /\ [][NextQAEval]_vars

(***************************************************************************)
(* Properties of the chain calls (specification Spec).                     *)
(***************************************************************************)
\* the events of one kind that one chain left in a trace, in order
EventsOf(tr, ev, chain) == SelectSeq(tr, LAMBDA e : e.ev = ev /\ e.chain = chain)

\* every event one chain left in a trace, in order
ChainEvents(tr, chain) == SelectSeq(tr, LAMBDA e : e.chain = chain)

Kinds(tr) == [i \in 1..Len(tr) |-> tr[i].ev]

ModelEvents(tr) == SelectSeq(tr, LAMBDA e : e.ev = "generate")

\* the caller's documents and the rest of the caller's values
CallerDocs == cfg.values["inputDocuments"].d

CallerRest == [k \in (DOMAIN cfg.values) \ {"inputDocuments"} |-> cfg.values[k]]

\* the text a document contributes to a prompt
DocText(doc) ==
    IF "pageContent" \in DOMAIN doc.metadata THEN doc.metadata["pageContent"] ELSE doc.pageContent

\* the two chains when their model does not fail
HealthyLLM == [scripted |-> FALSE, text |-> <<>>, nBest |-> cfg.nBest, fail |-> FALSE]

ManualInitial(doc) ==
    Predict(LLMChain("initial", HealthyLLM, InitialPrompt, cfg.memory),
            ("context" :> StrV(DocText(doc))) @@ CallerRest).text

ManualRefine(doc, existing) ==
    Predict(LLMChain("refine", HealthyLLM, RefinePrompt, NoMemory),
            ("context" :> StrV(DocText(doc))) @@ ("existingAnswer" :> StrV(existing))
                @@ CallerRest).text

\* the fold done by hand: initial(d1), then refine(d(i), answer so far)
RECURSIVE ManualFold(_, _)
ManualFold(ds, n) ==
    IF n = 1 THEN ManualInitial(ds[1])
    ELSE ManualRefine(ds[n], ManualFold(ds, n - 1))

RefineSucceeded == pc = "done" /\ op = "refine" /\ ret.err = NilErr

\* C1: a successful refine call returns, under its output key, the left fold
\* of the documents in the order supplied; it calls the initial chain once
\* and the refine chain once per further document, each refine call getting
\* the answer of the call before it as its existing answer.
C1_RefineIsLeftFold ==
    RefineSucceeded =>
        LET n == Len(CallerDocs) - 1
            refineCalls == EventsOf(trace, "call", "refine")
        IN  /\ ret.out = ("text" :> StrV(ManualFold(CallerDocs, n + 1)))
            /\ Len(EventsOf(trace, "call", "initial")) = 1
            /\ Len(refineCalls) = n
            /\ \A k \in 1..n :
                  /\ refineCalls[k].inputs["existingAnswer"] = StrV(ManualFold(CallerDocs, k))
                  /\ refineCalls[k].inputs["context"] = StrV(DocText(CallerDocs[k + 1]))

C1_Witness ==
    /\ RefineSucceeded
    /\ Len(CallerDocs) >= 3
    /\ CallerDocs[1] # CallerDocs[2]
    /\ CallerDocs[2] # CallerDocs[3]

EmptyDocuments ==
    /\ "inputDocuments" \in DOMAIN cfg.values
    /\ cfg.values["inputDocuments"].t = "docs"
    /\ Len(cfg.values["inputDocuments"].d) = 0

\* C2: a refine call with an empty document list returns an InvalidInputValues
\* error and no outputs, and calls neither the initial nor the refine chain.
C2_EmptyDocumentsRejected ==
    (pc = "done" /\ op = "refine" /\ EmptyDocuments) =>
        /\ ret.err.is = ErrInvalidInputValues
        /\ ret.out = NilValues
        /\ trace = <<>>

C2_Witness == pc = "done" /\ op = "refine" /\ EmptyDocuments

MemoryChainEvents == ChainEvents(trace, "initial")

\* C4: in a call of a chain with a memory attached, the memory is loaded
\* before the model is invoked and saved after it; it is saved only when the
\* call succeeded, with the inputs the chain worked on and the outputs the
\* chain produced, which are the outputs returned.
C4_MemoryLoadBeforeSaveAfter ==
    (cfg.memory.attached /\ MemoryChainEvents # <<>>) =>
        LET evs == MemoryChainEvents
            last == evs[Len(evs)]
        IN  /\ last.ev = "return"
            /\ IF last.err = NilErr
               THEN /\ Kinds(evs) = <<"call", "load", "generate", "save", "return">>
                    /\ evs[4].inputs = evs[3].inputs
                    /\ \A k \in DOMAIN evs[1].inputs : k \in DOMAIN evs[4].inputs
                    /\ evs[4].outputs = ("text" :> StrV(<<"[">> \o evs[3].prompt \o <<"]">>))
                    /\ evs[5].outputs = evs[4].outputs
                    /\ (op = "llm" /\ pc = "done") => ret.out = evs[4].outputs
               ELSE /\ Kinds(evs) \in {<<"call", "return">>, <<"call", "load", "return">>,
                                       <<"call", "load", "generate", "return">>}
                    /\ last.outputs = NilValues

C4_Witness ==
    /\ pc = "done"
    /\ op = "llm"
    /\ cfg.memory.attached
    /\ ret.err = NilErr
    /\ Len(MemoryChainEvents) = 5

\* C5: when the memory holds a value for a key the caller also supplies, the
\* prompt is rendered with the memory's value.
C5_MemoryWins ==
    \A i \in 1..Len(trace) :
        (/\ trace[i].ev = "generate"
         /\ trace[i].chain = "initial"
         /\ cfg.memory.attached
         /\ "question" \in DOMAIN cfg.memory.memories
         /\ "question" \in DOMAIN cfg.values) =>
            trace[i].prompt = <<"Q">> \o cfg.memory.memories["question"].s
                                \o <<"C">> \o trace[i].inputs["context"].s

C5_Witness ==
    /\ pc = "done"
    /\ op = "llm"
    /\ ret.err = NilErr
    /\ cfg.memory.attached
    /\ "question" \in DOMAIN cfg.memory.memories
    /\ "question" \in DOMAIN cfg.values
    /\ cfg.values["question"] # cfg.memory.memories["question"]

\* C6: a successful chain call returns exactly the chain's output keys: the
\* LLM chain one key holding the first generation without the white space
\* around it, the refine chain one key holding the final answer.
C6_OutputKeysExact ==
    (pc = "done" /\ ret.err = NilErr) =>
        LET gens == ModelEvents(trace)
            answer == <<"[">> \o gens[Len(gens)].prompt \o <<"]">>
        IN  /\ gens # <<>>
            /\ op = "llm" =>
                  /\ DOMAIN ret.out = LLMChainOutputKeys(InitialLLMChain(trace))
                  /\ ret.out = ("text" :> StrV(answer))
            /\ op = "refine" =>
                  /\ DOMAIN ret.out = {RefineOpts.OutputKey}
                  /\ ret.out[RefineOpts.OutputKey] = StrV(answer)

C6_Witness ==
    /\ pc = "done"
    /\ ret.err = NilErr
    /\ op = "llm"
    /\ cfg.nBest > 1

FailedReturns == {i \in 1..Len(trace) : trace[i].ev = "return" /\ trace[i].err # NilErr}

\* C7: when the initial call or a refine call fails, the refine call returns
\* that error as it is and no outputs, and nothing happens after the failed
\* call: no later document is processed, no later model call is made.
C7_RefineFailsFast ==
    (op = "refine" /\ FailedReturns # {}) =>
        /\ FailedReturns = {Len(trace)}
        /\ pc = "done"
        /\ ret.err = trace[Len(trace)].err
        /\ ret.out = NilValues
        /\ Len(SelectSeq(trace, LAMBDA e : e.ev = "call")) <= Len(docs)

C7_Witness ==
    /\ op = "refine"
    /\ pc = "done"
    /\ Len(docs) >= 3
    /\ Len(EventsOf(trace, "call", "refine")) = 1
    /\ trace[Len(trace)].err.is = ErrProvider

(***************************************************************************)
(* Properties of the agent's Plan and output parser (specification         *)
(* SpecAgent).                                                             *)
(***************************************************************************)
\* the chain call of Plan succeeded
PlanChainSucceeded ==
    /\ agent.events # <<>>
    /\ agent.events[Len(agent.events)].err = NilErr

\* a text went through the output parser
Parsed ==
    /\ agent.pc = "done"
    /\ agent.via = "parse" \/ (agent.via = "plan" /\ PlanChainSucceeded)

\* the text that went through it: the model's text as it stands, or for Plan
\* the chain's output
ParsedText ==
    IF agent.via = "parse" THEN agent.resp.text
    ELSE TrimSpace(agent.resp.text)

Positions(t, marker) == {i \in 1..Len(t) : t[i] = marker}

NonSpace(t, from, to) == {k \in from..to : ~IsSpace(t[k])}

\* "Action:" (the first) followed by the one "Action Input:", a name on one
\* line between them and a value after them
ActionShape(t) ==
    /\ Positions(t, finalAnswerAction) = {}
    /\ Positions(t, actionMarker) # {}
    /\ Cardinality(Positions(t, actionInputMarker)) = 1
    /\ LET i == SeqMin(Positions(t, actionMarker))
           c == SeqMin(Positions(t, actionInputMarker))
       IN  /\ i < c
           /\ NonSpace(t, i + 1, c - 1) # {}
           /\ \A k \in SeqMin(NonSpace(t, i + 1, c - 1))..SeqMax(NonSpace(t, i + 1, c - 1)) :
                 t[k] # "\n"
           /\ NonSpace(t, c + 1, Len(t)) # {}

\* the name: what stands between the two markers, without the white space around it
ShapeName(t) ==
    LET i == SeqMin(Positions(t, actionMarker))
        c == SeqMin(Positions(t, actionInputMarker))
    IN  SubSeq(t, SeqMin(NonSpace(t, i + 1, c - 1)), SeqMax(NonSpace(t, i + 1, c - 1)))

\* the value: the first line of text after "Action Input:", without the white space around it
ShapeValue(t) ==
    LET c == SeqMin(Positions(t, actionInputMarker))
        d == SeqMin(NonSpace(t, c + 1, Len(t)))
        breaks == {k \in d..Len(t) : t[k] = "\n"}
        e == IF breaks = {} THEN Len(t) + 1 ELSE SeqMin(breaks)
    IN  SubSeq(t, d, SeqMax(NonSpace(t, d, e - 1)))

\* C8: a text without "Final Answer:" that holds "Action: <name>" followed by
\* "Action Input: <value>" (its first "Action:", its only "Action Input:", the
\* name on one line, the value up to the end of its line) parses to exactly
\* one action whose tool is the name and whose tool input is the value, both
\* without the white space around them, and whose log is the whole text;
\* there is no finish and no error.
C8_ActionParsed ==
    (Parsed /\ ActionShape(ParsedText)) =>
        /\ agent.result =
              PlanResult(<<AgentAction(ShapeName(ParsedText), ShapeValue(ParsedText), ParsedText)>>,
                         <<>>, NilErr)
        /\ ParsedText = ExampleAction =>
              /\ agent.result.actions[1].tool = <<"search">>
              /\ agent.result.actions[1].toolInput = <<"capital", " ", "of", " ", "France">>

C8_Witness ==
    /\ Parsed
    /\ agent.via = "parse"
    /\ ActionShape(ParsedText)
    /\ Len(ParsedText) >= 5
    /\ IsSpace(ParsedText[SeqMin(Positions(ParsedText, actionInputMarker)) - 1])
    /\ Len(agent.result.actions) = 1

\* the text after the last "Final Answer:"
AfterLastMarker(t) ==
    LET m == SeqMax(Positions(t, finalAnswerAction))
    IN  [k \in 1..(Len(t) - m) |-> t[m + k]]

\* C9: a text holding "Final Answer:" parses to a finish, never to an action,
\* whose result value is the text after the last "Final Answer:"; the text
\* "... Final Answer: Paris" gives the result value "Paris".
C9_FinalAnswerParsed ==
    (Parsed /\ Positions(ParsedText, finalAnswerAction) # {}) =>
        /\ agent.result.err = NilErr
        /\ agent.result.actions = <<>>
        /\ Len(agent.result.finish) = 1
        /\ agent.result.finish[1].returnValues[AgentOutputKey] = AfterLastMarker(ParsedText)
        /\ ParsedText = ExampleFinish =>
              agent.result.finish[1].returnValues[AgentOutputKey] = <<"Paris">>

\* no "Action:" with an "Action Input:" after it
NoMarkerPair(t) ==
    \A i \in Positions(t, actionMarker) : \A c \in Positions(t, actionInputMarker) : c < i

\* C10: a text with neither "Final Answer:" nor an "Action:" / "Action Input:"
\* pair yields an UnableToParseOutput error and neither an action nor a
\* finish; Plan returns that error after one call of its chain.
C10_UnparsableIsError ==
    /\ (Parsed /\ Positions(ParsedText, finalAnswerAction) = {} /\ NoMarkerPair(ParsedText)) =>
          agent.result = PlanResult(<<>>, <<>>, Err(ErrUnableToParseOutput, ParsedText))
    /\ (agent.pc = "done" /\ agent.result.err.is = ErrUnableToParseOutput) =>
          /\ agent.result.actions = <<>>
          /\ agent.result.finish = <<>>
          /\ Positions(ParsedText, finalAnswerAction) = {}
          /\ ~ActionShape(ParsedText)
          /\ agent.via = "plan" => Kinds(agent.events) = <<"call", "generate", "return">>

C10_Witness ==
    /\ agent.pc = "done"
    /\ agent.via = "plan"
    /\ agent.result.err.is = ErrUnableToParseOutput
    /\ Positions(ParsedText, actionMarker) # {}
    /\ Len(ParsedText) >= 3

\* what one step adds to the scratchpad
StepText(step) ==
    step.action.log \o <<"\n", "Observation:", " ">> \o step.observation \o <<"\n", "Thought:">>

\* the step texts of a history, oldest first
RECURSIVE InStepOrder(_)
InStepOrder(steps) ==
    IF steps = <<>> THEN <<>> ELSE StepText(Head(steps)) \o InStepOrder(Tail(steps))

\* Plan ran: it called its chain
Planned ==
    /\ agent.pc = "done"
    /\ agent.via = "plan"

\* C11: the scratchpad Plan passes to its chain under agentScratchpad is the
\* concatenation, in step order, of each step's action log followed by
\* "\nObservation: ", the step's observation and "\nThought:"; it is the empty
\* string for an empty history and it replaces an agentScratchpad value the
\* caller supplied, every other input going through as the caller gave it.
C11_ScratchPadInStepOrder ==
    Planned =>
        /\ agent.events # <<>>
        /\ agent.events[1].ev = "call"
        /\ DOMAIN agent.events[1].inputs = DOMAIN agent.inputs \cup {"agentScratchpad"}
        /\ agent.events[1].inputs["agentScratchpad"] = StrV(InStepOrder(agent.steps))
        /\ agent.steps = <<>> => agent.events[1].inputs["agentScratchpad"] = StrV(<<>>)
        /\ \A k \in DOMAIN agent.inputs \ {"agentScratchpad"} :
              agent.events[1].inputs[k] = StrV(agent.inputs[k])
        /\ \A e \in {agent.events[n] : n \in 1..Len(agent.events)} :
              e.ev = "generate" =>
                  e.prompt = <<"prefix", "instructions", "Question:">> \o agent.inputs["input"]
                             \o <<"Thought:">> \o InStepOrder(agent.steps)

C11_Witness ==
    /\ Planned
    /\ Len(agent.steps) = 2
    /\ agent.steps[1] # agent.steps[2]
    /\ "agentScratchpad" \in DOMAIN agent.inputs
    /\ agent.inputs["agentScratchpad"] # InStepOrder(agent.steps)
    /\ \E n \in 1..Len(agent.events) : agent.events[n].ev = "generate"

(***************************************************************************)
(* Properties of the agent loop (specification SpecLoop).                  *)
(***************************************************************************)
IsPrefix(s, t) == Len(s) <= Len(t) /\ SubSeq(t, 1, Len(s)) = s

\* the step a Plan call makes
PlanStep == agent.pc = "ready" /\ agent'.pc = "done"

\* the step in which the run fails
FailingStep == loop.pc # "failed" /\ loop'.pc = "failed"

\* C12: across the iterations of the agent loop the step history only grows
\* by appending: every step already in it stays where it is and as it is;
\* a Plan call leaves the history and the inputs it is given unchanged; and
\* when a step fails (the chain fails, the output cannot be parsed, the tool
\* fails) the history is exactly what it was before that step, which is the
\* history the failing Plan call was given.
C12_HistoryOnlyGrows ==
    [][/\ IsPrefix(loop.steps, loop'.steps)
       /\ loop'.inputs = loop.inputs
       /\ PlanStep => /\ agent'.steps = agent.steps
                       /\ agent'.inputs = agent.inputs
                       /\ agent.steps = loop.steps
                       /\ loop' = loop
       /\ FailingStep => /\ loop'.steps = loop.steps
                          /\ loop'.steps = agent.steps
                          /\ loop'.result.err # NilErr]_vars

C12_Witness ==
    /\ loop.pc = "failed"
    /\ Len(loop.steps) = 2
    /\ loop.steps[1] # loop.steps[2]
    /\ loop.result.err.is = ErrUnableToParseOutput

(***************************************************************************)
(* Properties of the Formatter (specification SpecFormatter).              *)
(***************************************************************************)
\* the names of the fields the actions of a template reference
Referenced(tpl) == {tpl[i].x : i \in {j \in 1..Len(tpl) : tpl[j].var}}

Rendered == fmt.pc = "rendered"

\* C13: rendering a template that references a field the values do not hold
\* fails with an error and returns no text.
C13_MissingVariableIsError ==
    (Rendered /\ Referenced(fmt.tpl) \ DOMAIN fmt.values # {}) =>
        /\ fmt.out.err # NilErr
        /\ fmt.out.text = <<>>

\* C14: a template that is one variable reference and nothing else, rendered
\* on a map binding the variable to x, gives exactly x and no error, whatever
\* other variables the map holds.
C14_SingleReferenceRendersValue ==
    \A name \in {"query", "name"} :
        (Rendered /\ fmt.tpl = <<Var(name)>> /\ name \in DOMAIN fmt.values) =>
            /\ fmt.out.err = NilErr
            /\ fmt.out.text = fmt.values[name].s

C14_Witness ==
    /\ Rendered
    /\ fmt.tpl = <<Var("query")>>
    /\ DOMAIN fmt.values = {"query", "name", "extra"}
    /\ fmt.out.text = <<"y", " ", "z">>

\* the listing, as the set of the names listed
Listed == {fmt.fields[i] : i \in 1..Len(fmt.fields)}

\* C15: the fields listed for a template are exactly the names of the
\* variables it references, as bare names: {"query"} for a template that
\* references only query.
C15_FieldsAreBareNames ==
    fmt.pc \in {"made", "rendered"} =>
        /\ Listed = {<<name>> : name \in Referenced(fmt.tpl)}
        /\ fmt.tpl = <<Var("query")>> => Listed = {<<"query">>}

(***************************************************************************)
(* Properties of Bedrock.Generate (specification SpecBedrock).             *)
(***************************************************************************)
\* the chunks among the events read off the stream so far, in arrival order
ChunksRead == SelectSeq(bedrock.read, LAMBDA e : e.kind = "chunk")

\* the tokens the chunks carry
TokensOf(chunks) == [k \in 1..Len(chunks) |-> chunks[k].token]

\* one text after the other
RECURSIVE Concatenation(_, _)
Concatenation(texts, n) ==
    IF n = 0 THEN <<>> ELSE Concatenation(texts, n - 1) \o texts[n]

\* the sum of the input (output) counters the chunks carry
RECURSIVE SumInput(_, _)
SumInput(chunks, n) == IF n = 0 THEN 0 ELSE SumInput(chunks, n - 1) + chunks[n].inputTokens

RECURSIVE SumOutput(_, _)
SumOutput(chunks, n) == IF n = 0 THEN 0 ELSE SumOutput(chunks, n - 1) + chunks[n].outputTokens

Streamed ==
    /\ bedrock.pc = "done"
    /\ bedrock.opts.Stream
    /\ bedrock.ret.err = NilErr

\* C16: a streaming Generate that returns a result returns one generation,
\* whose text is the concatenation of the tokens of all the chunks that
\* arrived, in arrival order, and a usage map whose input_tokens and
\* output_tokens are the sums of the chunks' counters (0 without chunks); the
\* chunks "Hel", "lo" give "Hello".
C16_StreamAccumulates ==
    Streamed =>
        /\ Len(bedrock.ret.result) = 1
        /\ Len(bedrock.ret.result[1].Generations) = 1
        /\ bedrock.ret.result[1].Generations[1].Text =
              Concatenation(TokensOf(ChunksRead), Len(ChunksRead))
        /\ bedrock.ret.result[1].LLMOutput =
              ("input_tokens" :> SumInput(ChunksRead, Len(ChunksRead))) @@
              ("output_tokens" :> SumOutput(ChunksRead, Len(ChunksRead)))
        /\ TokensOf(ChunksRead) = <<<<"H", "e", "l">>, <<"l", "o">>>> =>
              bedrock.ret.result[1].Generations[1].Text = <<"H", "e", "l", "l", "o">>

C16_Witness ==
    /\ Streamed
    /\ bedrock.ctx = "live"
    /\ TokensOf(ChunksRead) = <<<<"H", "e", "l">>, <<"l", "o">>>>
    /\ bedrock.ret.result[1].Generations[1].Text = <<"H", "e", "l", "l", "o">>
    /\ bedrock.ret.result[1].LLMOutput["input_tokens"] = 3
    /\ bedrock.ret.result[1].LLMOutput["output_tokens"] = 3

\* C17: while a stream is read, the new-token callback has been invoked once
\* for each chunk read, with the chunk's token, in arrival order; while a
\* callback runs its token is not accumulated yet and no further event is
\* read; once it has returned the token is accumulated.  If the callback
\* returns an error, Generate returns that error and no result, and no
\* callback is invoked afterwards.
C17_CallbackThenContinue ==
    /\ [](/\ bedrock.pc \in {"streaming", "callback"} =>
                bedrock.callbacks = TokensOf(ChunksRead)
          /\ bedrock.pc = "streaming" => bedrock.tokens = bedrock.callbacks
          /\ bedrock.pc = "callback" =>
                /\ bedrock.callbacks = Append(bedrock.tokens, bedrock.pending.token)
                /\ bedrock.read[Len(bedrock.read)].token = bedrock.pending.token
          /\ (bedrock.pc = "done" /\ bedrock.ret.err.is = ErrCallback) =>
                /\ bedrock.ret.result = <<>>
                /\ bedrock.callbacks = TokensOf(ChunksRead))
    /\ [][/\ bedrock'.read # bedrock.read => bedrock.pc = "streaming"
          /\ bedrock'.callbacks # bedrock.callbacks =>
                /\ bedrock'.read # bedrock.read
                /\ bedrock'.pc = "callback"
          /\ bedrock.pc = "done" => bedrock' = bedrock]_vars

C17_Witness ==
    /\ bedrock.pc = "done"
    /\ bedrock.ret.err.is = ErrCallback
    /\ bedrock.callbacks = <<<<"H", "e", "l">>, <<"l", "o">>>>
    /\ bedrock.tokens = <<<<"H", "e", "l">>>>
    /\ bedrock.client.events # <<>>
    /\ bedrock.client.events[1].kind = "chunk"

\* the provider was called: the request went out
ProviderCalled == bedrock.request # <<>>

\* C18: when the context is canceled while the call to the provider is in
\* flight, the stream being read included, Generate returns a cancellation
\* error and no result.
C18_CancellationIsAnError ==
    (bedrock.pc = "done" /\ ProviderCalled /\ bedrock.ctx = "canceled") =>
        /\ bedrock.ret.result = <<>>
        /\ bedrock.ret.err.is = ErrContextCanceled

\* the stream was opened and every chunk read off it was taken in
StreamTakenIn ==
    /\ bedrock.pc = "done"
    /\ bedrock.opts.Stream
    /\ bedrock.llmOutput # <<>>
    /\ bedrock.tokens = TokensOf(ChunksRead)

\* no chunk read was marked by the provider as the one finishing the generation
NoFinishSignal == \A k \in 1..Len(bedrock.read) : ~bedrock.read[k].last

\* C19: when the stream ends before any chunk carried a finish signal,
\* Generate returns no error and a result holding exactly the tokens and the
\* usage of the chunks received so far, the empty completion when none was.
C19_EarlyEndReturnsAccumulated ==
    (StreamTakenIn /\ NoFinishSignal) =>
        /\ bedrock.ret.err = NilErr
        /\ bedrock.ret.result =
              <<ModelResult(Concatenation(TokensOf(ChunksRead), Len(ChunksRead)),
                            ("input_tokens" :> SumInput(ChunksRead, Len(ChunksRead))) @@
                            ("output_tokens" :> SumOutput(ChunksRead, Len(ChunksRead))))>>
        /\ ChunksRead = <<>> => bedrock.ret.result[1].Generations[1].Text = <<>>

C19_Witness ==
    /\ StreamTakenIn
    /\ NoFinishSignal
    /\ bedrock.ctx = "live"
    /\ Len(bedrock.read) = 2
    /\ bedrock.ret.result[1].Generations[1].Text = <<"H", "e", "l">>
    /\ bedrock.ret.result[1].LLMOutput["input_tokens"] = 3

\* the providers the adapter prepares requests for
Supported == {"ai21", "amazon", "anthropic", "cohere", "cohere-r", "meta", "mistral"}

\* the parameters of a request body
RequestParams(body) ==
    IF "textGenerationConfig" \in DOMAIN body THEN body["textGenerationConfig"].d ELSE body

\* C20: a Generate call with stop sequences is never rejected because the
\* provider has no stop-sequence key: for every provider the adapter
\* supports, the call goes on to invoke the provider, with the stop
\* sequences under the provider's key if it has one and left out if not.
C20_UnsupportedOptionDropped ==
    (bedrock.pc \notin {"off", "ready"} /\ bedrock.stop # <<>>
        /\ getProvider(bedrock.modelID) \in Supported) =>
        /\ bedrock.ret.err.is # ErrStopSequenceKey
        /\ ProviderCalled
        /\ LET provider == getProvider(bedrock.modelID)
               params == RequestParams(bedrock.request[1].Body)
           IN  IF provider \in {"meta", "cohere-r"}
               THEN DOMAIN params \cap {"stop_sequences", "stopSequences", "stop"} = {}
               ELSE \E key \in {"stop_sequences", "stopSequences", "stop"} :
                        /\ key \in DOMAIN params
                        /\ params[key] = ListV(bedrock.stop)

(***************************************************************************)
(* C21: an unknown provider and the time it is reported                    *)
(***************************************************************************)

\* NewBedrock has returned a model
Constructed == bedrock.pc \notin {"off", "new", "unbuilt"}

\* C21: a model id whose provider the adapter does not support is rejected by
\* NewBedrock: every model NewBedrock returns has a supported provider, and no
\* Generate call on it returns the unsupported-provider error.
C21_UnknownProviderRejectedAtConstruction ==
    Constructed =>
        /\ bedrock.modelID[1] \in Supported
        /\ bedrock.pc = "done" => bedrock.ret.err.is # ErrUnsupportedProvider

(***************************************************************************)
(* C22: a malformed response payload                                       *)
(***************************************************************************)

\* Generate has returned after handing a malformed payload to the adapter:
\* the response of InvokeModel, or the chunk read last off the stream
MalformedDecoded ==
    /\ bedrock.pc = "done"
    /\ ProviderCalled
    /\ IF bedrock.opts.Stream
       THEN /\ bedrock.read # <<>>
            /\ bedrock.read[Len(bedrock.read)].kind = "chunk"
            /\ bedrock.read[Len(bedrock.read)].payload = Malformed
       ELSE /\ ClientError(bedrock) = NilErr
            /\ bedrock.client.response = Malformed

\* the providers whose stream chunks PrepareStreamOutput decodes
StreamDecoded == Supported \ {"ai21"}

StopKeys == {"stop_sequences", "stopSequences", "stop"}

PromptKeys == {"prompt", "inputText", "messages", "message", "textGenerationConfig"}

\* m without the keys in keys
Without(m, keys) == [k \in (DOMAIN m) \ keys |-> m[k]]

\* the request body is that of this call: this call's prompt, the configured
\* parameters, and this call's stop sequences and no others
RequestOfThisCall(b, body) ==
    LET params == Without(RequestParams(body), PromptKeys)
    IN  /\ Without(params, StopKeys) = b.opts.ModelParams
        /\ b.stop = <<>> => DOMAIN params \cap StopKeys = {}
        /\ \A key \in DOMAIN params \cap StopKeys : params[key] = ListV(b.stop)
        /\ body = PrepareInput(getProvider(b.modelID), b.prompt, params).body

\* C26: no step of a Generate call on a constructed model changes the
\* configured ModelParams, and the request a call sends carries the prompt
\* and the stop sequences of that call only, over the configured parameters.
C26_GenerateKeepsModelParams ==
    [][Constructed =>
          /\ bedrock'.opts = bedrock.opts
          /\ Len(bedrock'.sent) > Len(bedrock.sent) =>
                RequestOfThisCall(bedrock', bedrock'.sent[Len(bedrock'.sent)])]_vars

\* a second call without stop sequences has been made after a first one with
\* stop sequences
C26_Witness ==
    /\ bedrock.pc = "done"
    /\ Len(bedrock.sent) = 2
    /\ DOMAIN RequestParams(bedrock.sent[1]) \cap StopKeys # {}
    /\ DOMAIN RequestParams(bedrock.sent[2]) \cap StopKeys = {}
    /\ bedrock.sent[1] # bedrock.sent[2]

(***************************************************************************)
(* C27: the overrides of NewBedrock and the model parameters               *)
(***************************************************************************)

Overrides == {"MaxTokens", "Temperature", "TopP"}

\* the name a provider gives to each override
OverrideKeys(provider) ==
    CASE provider = "ai21" ->
            [MaxTokens |-> "maxTokens", Temperature |-> "temperature", TopP |-> "topP"]
      [] provider = "amazon" ->
            [MaxTokens |-> "maxTokenCount", Temperature |-> "temperature", TopP |-> "topP"]
      [] provider = "cohere" ->
            [MaxTokens |-> "max_tokens", Temperature |-> "temperature", TopP |-> "p"]
      [] provider = "meta" ->
            [MaxTokens |-> "max_gen_len", Temperature |-> "temperature", TopP |-> "top_p"]
      [] OTHER ->
            [MaxTokens |-> "max_tokens", Temperature |-> "temperature", TopP |-> "top_p"]

\* C27: in the model NewBedrock returns, a model parameter the caller gave
\* under the name of an override that was left unset keeps its value, a
\* parameter under any other name keeps its value, and with no override set
\* the model parameters are the ones the caller gave.
C27_UnsetOverridesKeepModelParams ==
    bedrock.pc = "built" =>
        LET given == bedrock.given
            params == bedrock.opts.ModelParams
            keys == OverrideKeys(bedrock.modelID[1])
        IN  /\ (given.MaxTokens = NilV /\ given.Temperature = NilV /\ given.TopP = NilV
                   /\ given.StopSequences = <<>>) => params = given.ModelParams
            /\ \A o \in Overrides :
                  (given[o] = NilV /\ keys[o] \in DOMAIN given.ModelParams) =>
                      /\ keys[o] \in DOMAIN params
                      /\ params[keys[o]] = given.ModelParams[keys[o]]
            /\ \A k \in (DOMAIN given.ModelParams) \ {keys[o] : o \in Overrides} :
                  k \in DOMAIN params /\ params[k] = given.ModelParams[k]

(***************************************************************************)
(* C28: a response whose list of completions is empty                      *)
(***************************************************************************)

\* the providers whose response (stream chunk) carries a list of completions
ListProviders(stream) ==
    IF stream THEN {"cohere", "mistral"}
    ELSE {"ai21", "amazon", "anthropic", "cohere", "mistral"}

\* the adapter has been handed a well-formed payload whose list is empty
EmptyListDecoded ==
    /\ bedrock.pc \in {"done", "panicked"}
    /\ ProviderCalled
    /\ getProvider(bedrock.modelID) \in ListProviders(bedrock.opts.Stream)
    /\ IF bedrock.opts.Stream
       THEN /\ bedrock.read # <<>>
            /\ bedrock.read[Len(bedrock.read)].kind = "chunk"
            /\ bedrock.read[Len(bedrock.read)].payload =
                  Payload(EmptyDoc(bedrock.modelID[1]))
       ELSE /\ ClientError(bedrock) = NilErr
            /\ bedrock.client.response = Payload(EmptyDoc(bedrock.modelID[1]))

\* C28: Generate never ends in a panic, and a well-formed payload whose list
\* of completions is empty makes it return an error and no result.
C28_EmptyListIsAnError ==
    /\ bedrock.pc # "panicked"
    /\ EmptyListDecoded => (bedrock.ret.err # NilErr /\ bedrock.ret.result = <<>>)

(***************************************************************************)
(* C23: the order of the chat messages in the OpenAI request               *)
(***************************************************************************)

\* the role of the provider for each type it knows
OpenAIRoles ==
    (ChatMessageTypeHuman :> "user") @@ (ChatMessageTypeAI :> "assistant") @@
    (ChatMessageTypeSystem :> "system")

\* C23: once Generate has gone through the messages, either every message is
\* Human, AI or System and the request has one message per input message, in
\* the same order, with the role of its type and its text; or some message is
\* of another type and Generate has returned an error and no result without
\* calling the client.
C23_MessageOrderPreserved ==
    openai.pc \notin {"off", "ready"} =>
        IF \A k \in 1..Len(openai.messages) : openai.messages[k].type \in DOMAIN OpenAIRoles
        THEN /\ Len(openai.request) = 1
             /\ openai.request[1].Messages =
                   [k \in 1..Len(openai.messages) |->
                       [Role |-> OpenAIRoles[openai.messages[k].type],
                        Content |-> openai.messages[k].text]]
        ELSE /\ openai.request = <<>>
             /\ openai.pc = "done"
             /\ openai.ret.err.is = ErrUnknownMessageType
             /\ openai.ret.result = <<>>

\* a request of several messages of different roles has been sent
C23_Witness ==
    /\ openai.request # <<>>
    /\ Len(openai.request[1].Messages) = 3
    /\ openai.request[1].Messages[1].Role = "system"
    /\ openai.request[1].Messages[2].Role = "user"
    /\ openai.request[1].Messages[3].Role = "assistant"
    /\ openai.pc = "done"

(***************************************************************************)
(* C24, C25: the Simple memory                                             *)
(***************************************************************************)

\* C24: every MemoryVariables call returned exactly the keys stored, and
\* every LoadMemoryVariables call returned no error and exactly the stored
\* pairs: no stored key is missing, and no key of the inputs is there unless
\* it is stored, with the stored value.
C24_LoadReturnsStoredPairs ==
    \A k \in 1..Len(simple.log) :
        LET call == simple.log[k]
        IN  /\ call.method = "MemoryVariables" => call.out = DOMAIN simple.memories
            /\ call.method = "LoadMemoryVariables" =>
                  /\ call.err = NilErr
                  /\ call.out = simple.memories
                  /\ ((DOMAIN call.inputs) \ (DOMAIN simple.memories)) \cap (DOMAIN call.out) = {}

\* a load with inputs of which one has the name of a stored key, and the keys asked for
C24_Witness ==
    /\ simple.memories # <<>>
    /\ \E k \in 1..Len(simple.log) :
          /\ simple.log[k].method = "LoadMemoryVariables"
          /\ (DOMAIN simple.log[k].inputs) \cap (DOMAIN simple.memories) # {}
          /\ (DOMAIN simple.log[k].inputs) \ (DOMAIN simple.memories) # {}
    /\ \E k \in 1..Len(simple.log) : simple.log[k].method = "MemoryVariables"

\* C25: SaveContext and Clear return no error and no call changes the
\* stored memories, so that what MemoryVariables and LoadMemoryVariables
\* return stays what it was.
C25_SaveAndClearChangeNothing ==
    [][/\ simple'.memories = simple.memories
       /\ \A k \in 1..Len(simple'.log) :
             simple'.log[k].method \in {"SaveContext", "Clear"} =>
                 simple'.log[k].err = NilErr
       /\ \A j, k \in 1..Len(simple'.log) :
             (simple'.log[j].method = simple'.log[k].method
                 /\ simple'.log[j].method \in {"MemoryVariables", "LoadMemoryVariables"}) =>
                 simple'.log[j].out = simple'.log[k].out]_vars

\* a load, then a save with inputs and outputs and a clear, then a load again
C25_Witness ==
    /\ Len(simple.log) = 3
    /\ simple.memories # <<>>
    /\ simple.log[1].method = "LoadMemoryVariables"
    /\ \/ simple.log[2].method = "SaveContext" /\ simple.log[2].inputs # <<>>
       \/ simple.log[2].method = "Clear"
    /\ simple.log[3].method = "LoadMemoryVariables"
    /\ simple.log[3].out = simple.log[1].out

(***************************************************************************)
(* C29: the transcript of a sequence of chat messages                      *)
(***************************************************************************)

\* the role a line starts with
TranscriptRole(message, opts) ==
    CASE message.type = ChatMessageTypeHuman -> opts.HumanPrefix
      [] message.type = ChatMessageTypeAI -> opts.AIPrefix
      [] message.type = ChatMessageTypeSystem -> opts.SystemPrefix
      [] OTHER -> message.role

\* C29: for messages built with the constructors StringifyChatMessages
\* returns, with no error, one line "<role>: <text>" per message in order,
\* joined by newlines; with a message of an unknown type it returns an error
\* and no text.
C29_TranscriptOfConstructedMessages ==
    stringify.pc \notin {"off", "ready"} =>
        LET messages == stringify.messages
            constructed == \A k \in 1..Len(messages) :
                               /\ messages[k].pointer
                               /\ messages[k].type \in
                                     {ChatMessageTypeHuman, ChatMessageTypeAI,
                                      ChatMessageTypeSystem, ChatMessageTypeGeneric}
            lines == [k \in 1..Len(messages) |->
                         TranscriptRole(messages[k], stringify.opts) \o <<": ">> \o
                         messages[k].text]
            unknown == \E k \in 1..Len(messages) :
                           messages[k].type \notin
                              {ChatMessageTypeHuman, ChatMessageTypeAI,
                               ChatMessageTypeSystem, ChatMessageTypeGeneric}
        IN  /\ constructed =>
                  /\ stringify.pc = "done"
                  /\ stringify.ret.err = NilErr
                  /\ stringify.ret.text = JoinLines(lines, Len(lines))
            /\ unknown =>
                  /\ stringify.pc = "done"
                  /\ stringify.ret.err.is = ErrUnknownChatMessageType
                  /\ stringify.ret.text = <<>>

(***************************************************************************)
(* C30: the inputs the evaluation chains build                             *)
(***************************************************************************)

\* the keys an example must have for the chain that evaluates it
ExampleKeys ==
    IF qaeval.chain = "QAEvalChain" THEN {qaeval.questionKey, qaeval.answerKey}
    ELSE {qaeval.questionKey, qaeval.contextKey}

\* an example or the prediction paired with it lacks a configured key, or
\* there are fewer predictions than examples
IllFormedEvaluation ==
    \/ Len(qaeval.predictions) < Len(qaeval.examples)
    \/ \E i \in 1..Len(qaeval.examples) :
          \/ ~(ExampleKeys \subseteq DOMAIN qaeval.examples[i])
          \/ /\ i <= Len(qaeval.predictions)
             /\ qaeval.predictionKey \notin DOMAIN qaeval.predictions[i]

\* C30: Evaluate never panics; when an example or a prediction lacks a
\* configured key, or the predictions are fewer than the examples, it
\* returns an error and hands no input to the chain; otherwise it hands the
\* chain one input per example, in order, example i with prediction i.
C30_EvaluatePairsOrFails ==
    /\ qaeval.pc # "panicked"
    /\ qaeval.pc \in {"applying", "done"} =>
          IF IllFormedEvaluation
          THEN /\ qaeval.inputs = <<>>
               /\ qaeval.pc = "done"
               /\ qaeval.ret.err # NilErr
          ELSE /\ Len(qaeval.inputs) = Len(qaeval.examples)
               /\ \A i \in 1..Len(qaeval.examples) :
                     /\ qaeval.inputs[i]["query"] =
                           StrV(qaeval.examples[i][qaeval.questionKey])
                     /\ qaeval.inputs[i]["result"] =
                           StrV(qaeval.predictions[i][qaeval.predictionKey])
                     /\ IF qaeval.chain = "QAEvalChain"
                        THEN qaeval.inputs[i]["answer"] =
                                StrV(qaeval.examples[i][qaeval.answerKey])
                        ELSE qaeval.inputs[i]["context"] =
                                StrV(qaeval.examples[i][qaeval.contextKey])

====
